---- MODULE Spec2Model ----
(***************************************************************************)
(* Lowering of a pipelined query plan into a compiled (executable) query   *)
(* plan: LowerToCompiledQueryPlanPhase.cpp.                                *)
(*                                                                         *)
(* The recursive walk apply -> processSource -> injectFormatter ->         *)
(* processSuccessor -> processSink / processOperatorPipeline is modelled   *)
(* as a machine with an explicit call stack, one step per call, loop       *)
(* iteration or return.  ExecutablePipeline objects live in a heap and are *)
(* referred to by address, so that "the same instance" and "an equal copy" *)
(* are different things.                                                   *)
(*                                                                         *)
(* Name resolution.  The translation unit calls processSuccessor with two  *)
(* arguments (lines 127, 217) and with four (lines 75, 97) and names the   *)
(* pass state both as members (pipelineToExecutableMap, sinks, sources)    *)
(* and through loweringContext.  There is one definition of                *)
(* processSuccessor, processSink and processOperatorPipeline (lines       *)
(* 45-56, 148-158, 206-225) and apply() returns the members (237-239), so  *)
(* every call resolves to that one definition and both spellings of the    *)
(* state name the same memo map, sink list and source list.               *)
(***************************************************************************)
EXTENDS Integers, Sequences, FiniteSets, TLC

(***************************************************************************)
(* The input plans.                                                        *)
(***************************************************************************)
\* Bound: the largest number of successor edges of an input plan.
MaxEdges == 4

SourceIds == {1, 2}
OperatorIds == {3, 4}
SinkIds == {5, 6}
PipelineIds == SourceIds \cup OperatorIds \cup SinkIds

\* A second sink pipeline object that carries the PipelineId of sink 5 and a
\* sink descriptor of its own: what an inconsistent upstream phase hands
\* over. Only the plans of InitAbort hold it.
TwinSink == 15

\* Parser types of the source descriptors, as strings of characters.
ParserTypes == { <<"r", "a", "w">>, <<"R", "a", "W">>, <<"c", "s", "v">> }

\* The successors a pipeline of an acyclic plan may list: operators and
\* sinks behind it in a topological numbering.
Targets(n) == { t \in OperatorIds \cup SinkIds : t > n }

\* The edges an input plan may have.
Edges == { e \in (SourceIds \cup OperatorIds) \X (OperatorIds \cup SinkIds) : e[2] \in Targets(e[1]) }

\* The successor lists of the plans with at most k edges; a list may name a
\* successor twice.
RECURSIVE SuccessorLists(_)
SuccessorLists(k) ==
    IF k = 0
    THEN { [n \in PipelineIds |-> <<>>] }
    ELSE LET prev == SuccessorLists(k - 1)
         IN  prev \cup { [s EXCEPT ![e[1]] = Append(@, e[2])] : s \in prev, e \in Edges }

\* The pipelines of a plan: the source pipelines and what their successor
\* lists lead to.
Range(seq) == { seq[k] : k \in 1..Len(seq) }
RECURSIVE ReachableFrom(_, _)
ReachableFrom(succ, ps) ==
    LET more == ps \cup { t \in PipelineIds : \E n \in ps : t \in Range(succ[n]) }
    IN  IF more = ps THEN ps ELSE ReachableFrom(succ, more)
Reachable(succ) == ReachableFrom(succ, SourceIds)

\* The input plans: only a pipeline of the plan has successors.
Plans ==
    { succ \in SuccessorLists(MaxEdges) :
        \A n \in PipelineIds : succ[n] # <<>> => n \in Reachable(succ) }

(***************************************************************************)
(* Collaborators of the pass whose code is outside the translation unit.   *)
(***************************************************************************)
\* Pipeline::isSourcePipeline / isOperatorPipeline / isSinkPipeline: the
\* role of a pipeline follows from its root operator.
isSourcePipeline(p) == p \in SourceIds
isOperatorPipeline(p) == p \in OperatorIds
isSinkPipeline(p) == p \in SinkIds \cup {TwinSink}

\* Pipeline::getPipelineId: a pipeline object is named by its id, but for
\* the twin sink, which carries the id of sink 5.
getPipelineId(p) == IF p = TwinSink THEN 5 ELSE p

\* NES::Util::toLowerCase, character by character.
toLowerChar(c) ==
    CASE c = "R" -> "r"
      [] c = "A" -> "a"
      [] c = "W" -> "w"
      [] c = "C" -> "c"
      [] c = "S" -> "s"
      [] c = "V" -> "v"
      [] OTHER -> c
toLowerCase(str) == [k \in 1..Len(str) |-> toLowerChar(str[k])]

\* std::unordered_map::emplace: inserts only when the key is absent.
emplace(map, key, value) ==
    IF key \in DOMAIN map
    THEN map
    ELSE [k \in DOMAIN map \cup {key} |-> IF k = key THEN value ELSE map[k]]

\* A lookup that never finds the key: the memo check of line 209 left out.
contains_never(map, key) == FALSE

\* std::unordered_map::find(key) != end().
contains(map, key) == key \in DOMAIN map

\* PipelinedQueryPlan::getSourcePipelines: the plan's pipelines that are
\* source pipelines, in plan order.
getSourcePipelines(plan) == SelectSeq(plan.pipelines, isSourcePipeline)

\* PipelinedQueryPlan::removePipeline.
removePipeline(plan, p) ==
    [plan EXCEPT !.pipelines = SelectSeq(@, LAMBDA q : q # p)]

(***************************************************************************)
(* State.                                                                  *)
(***************************************************************************)
VARIABLES
    pipelineQueryPlan,        \* the input plan (successors, descriptors, root pipelines)
    executionMode,            \* pipelineQueryPlan->getExecutionMode()
    dumpMode,                 \* dumpQueryCompilationIntermediateRepresentations
    heap,                     \* the ExecutablePipeline objects, by address
    pipelineToExecutableMap,  \* memo map: PipelineId -> address
    sinks,                    \* std::vector<CompiledQueryPlan::Sink>
    sources,                  \* std::vector<CompiledQueryPlan::Source>
    nextPipelineId,           \* the counter behind getNextPipelineId()
    stack,                    \* the call stack of the walk
    status,                   \* "idle", "running", "returned" or "aborted"
    compiledPlan,             \* the CompiledQueryPlan apply() returned
    arrivals,                 \* history: the calls of processSink, in order
    invocations               \* history: the plans apply() returned, with their inputs

loweringVars == << pipelineQueryPlan, executionMode, dumpMode, heap, pipelineToExecutableMap,
                   sinks, sources, nextPipelineId, stack, status, compiledPlan, arrivals,
                   invocations >>

(***************************************************************************)
(* State of the other components.  Each is a component of its own: a       *)
(* step of one leaves the state of the others alone.                       *)
(***************************************************************************)
\* SystestParser (nes-systests/systest/src/SystestParser.cpp).
VARIABLES
    lines,                    \* the loaded lines
    currentLine,              \* index of the current line, from 0
    firstToken,               \* no token was fetched yet
    shouldRevisitCurrentLine, \* the current line is still to be dispatched
    lastParsedQuery,          \* std::optional<std::string>
    lastParsedQueryId,        \* std::optional<SystestQueryId>
    queryIdAssigner,          \* the two counters of parse()'s SystestQueryIdAssigner
    parserStatus,             \* "constructed", "loaded", "parsing", "done", "failed", "aborted"
    parseCalls,               \* history: the number of calls of parse()
    callbacks                 \* history: the callbacks parse() invoked, in order

parserVars == << lines, currentLine, firstToken, shouldRevisitCurrentLine, lastParsedQuery,
                 lastParsedQueryId, queryIdAssigner, parserStatus, parseCalls, callbacks >>

nullopt == [has_value |-> FALSE]
optional(v) == [has_value |-> TRUE, value |-> v]

\* The parser after construction.
SystestParserInit ==
    /\ lines = <<>>
    /\ currentLine = 0
    /\ firstToken = TRUE
    /\ shouldRevisitCurrentLine = FALSE
    /\ lastParsedQuery = nullopt
    /\ lastParsedQueryId = nullopt
    /\ queryIdAssigner = [query |-> 1, result |-> 1]
    /\ parserStatus = "constructed"
    /\ parseCalls = 0
    /\ callbacks = <<>>

(***************************************************************************)
(* MQTTSink: the configuration given to validateAndFormat and the map it   *)
(* returns, the members qos and cleanSession, the client with the options  *)
(* of its connection and the messages handed to it, the position in the    *)
(* sink's life cycle and the record of the last execute call.              *)
(***************************************************************************)
VARIABLES
    mqttConfig,
    validated,
    qos,
    cleanSession,
    client,
    mqttStatus,
    executed,
    executes

mqttVars == << mqttConfig, validated, qos, cleanSession, client, mqttStatus, executed, executes >>

\* No client: the unique_ptr before start.
NoClient == [ created |-> FALSE ]

MQTTSinkIdle ==
    /\ mqttConfig = <<>>
    /\ validated = <<>>
    /\ qos = 0
    /\ cleanSession = FALSE
    /\ client = NoClient
    /\ mqttStatus = "unused"
    /\ executed = <<>>
    /\ executes = 0

(***************************************************************************)
(* The serialization of the TemporalSequence aggregation: the aggregation, *)
(* the message made from it or received, and what the deserializer made    *)
(* of the message.                                                         *)
(***************************************************************************)
VARIABLES
    aggregation,
    serializedFunction,
    deserialized,
    serdeStatus

serdeVars == << aggregation, serializedFunction, deserialized, serdeStatus >>

SerdeIdle ==
    /\ aggregation = <<>>
    /\ serializedFunction = <<>>
    /\ deserialized = <<>>
    /\ serdeStatus = "unused"

(***************************************************************************)
(* OutputOriginIdsTrait: the origin ids of the trait, the configuration    *)
(* serialized from it or received, and what the registrar made of the      *)
(* configuration.                                                          *)
(***************************************************************************)
VARIABLES
    originIds,
    traitConfig,
    registered,
    traitStatus

traitVars == << originIds, traitConfig, registered, traitStatus >>

TraitIdle ==
    /\ originIds = <<>>
    /\ traitConfig = <<>>
    /\ registered = <<>>
    /\ traitStatus = "unused"

(***************************************************************************)
(* The MEOS wrapper: the flag and the mutex of the initialization, the     *)
(* position of every thread inside ensureMeosInitialized, the calls each   *)
(* thread has returned from, the runs of meos_initialize begun and ended   *)
(* and the registrations of the cleanup; the argument and the result of    *)
(* convertEpochToTimestamp.                                                *)
(***************************************************************************)
VARIABLES
    meos_initialized,
    meos_init_mutex,
    pc,
    returns,
    initializeBegun,
    initializeEnded,
    atexitRegistered,
    epochLike,
    secondsArgument,
    epochStatus

meosVars == << meos_initialized, meos_init_mutex, pc, returns, initializeBegun, initializeEnded,
               atexitRegistered >>
epochVars == << epochLike, secondsArgument, epochStatus >>

MeosIdle ==
    /\ meos_initialized = FALSE
    /\ meos_init_mutex = 0
    /\ pc = <<>>
    /\ returns = <<>>
    /\ initializeBegun = 0
    /\ initializeEnded = 0
    /\ atexitRegistered = 0

EpochIdle ==
    /\ epochLike = <<>>
    /\ secondsArgument = <<>>
    /\ epochStatus = "unused"

otherVars == << parserVars, mqttVars, serdeVars, traitVars, meosVars, epochVars >>
OthersIdle ==
    /\ SystestParserInit
    /\ MQTTSinkIdle
    /\ SerdeIdle
    /\ TraitIdle
    /\ MeosIdle
    /\ EpochIdle

vars == << loweringVars, otherVars >>

NoPlan == [returned |-> FALSE]
EmptyMap == [k \in {} |-> 0]

\* The largest pipeline id the planning phase handed out.
MaxPipelineId == CHOOSE m \in PipelineIds : \A p \in PipelineIds : p <= m

Init ==
    /\ \E succ \in Plans, parser \in [SourceIds -> ParserTypes] :
          pipelineQueryPlan =
              [ successors |-> succ,
                parserType |-> parser,
                originId   |-> [s \in SourceIds |-> s],
                pipelines  |-> <<1, 2>> ]
    /\ executionMode = "COMPILER"
    /\ dumpMode = "NONE"
    /\ heap = <<>>
    /\ pipelineToExecutableMap = EmptyMap
    /\ sinks = <<>>
    /\ sources = <<>>
    /\ nextPipelineId = MaxPipelineId + 1
    /\ stack = <<>>
    /\ status = "idle"
    /\ compiledPlan = NoPlan
    /\ arrivals = <<>>
    /\ invocations = <<>>
    /\ OthersIdle

(***************************************************************************)
(* Helpers of the walk.                                                    *)
(***************************************************************************)
Top == stack[Len(stack)]
Pop(n) == SubSeq(stack, 1, Len(stack) - n)
getSuccessors(p) == pipelineQueryPlan.successors[p]

\* A frame: the function running, its pipeline, the position of its loop,
\* the ExecutablePipeline it created (0: none) and its local vector.
Frame(fn, p, self, list) == [fn |-> fn, pipeline |-> p, i |-> 1, self |-> self, list |-> list]

\* The frame is in its loop over pipeline->getSuccessors() and meets the
\* next successor.
InLoop ==
    /\ status = "running"
    /\ stack # <<>>
    /\ Top.fn \in {"processSource", "injectFormatter", "processOperatorPipeline"}
    /\ Top.i <= Len(getSuccessors(Top.pipeline))
\* The end test of the loop missing the end by one.
LoopDone_pastEnd ==
    /\ status = "running"
    /\ stack # <<>>
    /\ Top.fn \in {"processSource", "injectFormatter", "processOperatorPipeline"}
    /\ Top.i > Len(getSuccessors(Top.pipeline)) + 1

LoopDone ==
    /\ status = "running"
    /\ stack # <<>>
    /\ Top.fn \in {"processSource", "injectFormatter", "processOperatorPipeline"}
    /\ Top.i > Len(getSuccessors(Top.pipeline))
NextSuccessor == getSuccessors(Top.pipeline)[Top.i]

\* The Predecessor (std::variant<OriginId, std::weak_ptr<ExecutablePipeline>>)
\* a frame passes to processSuccessor: lines 75, 97, 127 and 217.
PredecessorOf(f) ==
    IF f.fn = "injectFormatter" /\ f.self = 0
    THEN [kind |-> "OriginId", ref |-> pipelineQueryPlan.originId[f.pipeline]]
    ELSE [kind |-> "ExecutablePipeline", ref |-> f.self]

\* What a frame does with the ExecutablePipeline processSuccessor returned:
\* injectFormatter collects it in its local vector (lines 77, 99),
\* processSource and processOperatorPipeline append it to the successors of
\* the pipeline they are building (lines 129, 219).
FrameAfterSuccessor(f, e) ==
    IF f.fn = "injectFormatter"
    THEN [f EXCEPT !.list = Append(@, e), !.i = @ + 1]
    ELSE [f EXCEPT !.i = @ + 1]
\* The successor put in front of the list instead of behind it.
HeapAfterSuccessor_prepend(f, h, e) ==
    IF f.fn = "injectFormatter"
    THEN h
    ELSE [h EXCEPT ![f.self].successors = <<e>> \o @]

HeapAfterSuccessor(f, h, e) ==
    IF f.fn = "injectFormatter"
    THEN h
    ELSE [h EXCEPT ![f.self].successors = Append(@, e)]

\* ExecutablePipeline::create(id, stage, successors).
ExecutablePipeline(id, stage, successors) ==
    [id |-> id, stage |-> stage, successors |-> successors]

\* The descriptors of the root operators.
SourceDescriptor(p) == [parserType |-> pipelineQueryPlan.parserType[p]]
SinkDescriptor(p) == [sink |-> p]

(***************************************************************************)
(* getStage, lines 160-204.                                                *)
(***************************************************************************)
ValidBackend(mode) == mode \in {"COMPILER", "INTERPRETER"}

\* Lines 165-178: the switch over the execution mode.
EngineCompilation(mode) ==
    CASE mode = "COMPILER"    -> TRUE
      [] mode = "INTERPRETER" -> FALSE

\* The case FILE with the console and file flags of the case CONSOLE.
DumpOptions_fileAsConsole(dump) ==
    CASE dump = "NONE"             -> << FALSE, FALSE, FALSE >>
      [] dump = "CONSOLE"          -> << TRUE,  TRUE,  FALSE >>
      [] dump = "FILE"             -> << TRUE,  TRUE,  FALSE >>
      [] dump = "FILE_AND_CONSOLE" -> << TRUE,  TRUE,  TRUE  >>

\* Lines 180-202: the switch over the dump mode; all, console, file.
DumpOptions(dump) ==
    CASE dump = "NONE"             -> << FALSE, FALSE, FALSE >>
      [] dump = "CONSOLE"          -> << TRUE,  TRUE,  FALSE >>
      [] dump = "FILE"             -> << TRUE,  FALSE, TRUE  >>
      [] dump = "FILE_AND_CONSOLE" -> << TRUE,  TRUE,  TRUE  >>

\* Line 164 and the two switches.
Options(mode, dump) ==
    [ mlirEnableMultithreading |-> FALSE,
      engineCompilation |-> EngineCompilation(mode),
      dumpAll     |-> DumpOptions(dump)[1],
      dumpConsole |-> DumpOptions(dump)[2],
      dumpFile    |-> DumpOptions(dump)[3] ]

getStage(p) ==
    [ kind |-> "CompiledExecutablePipelineStage",
      pipeline |-> p,
      options |-> Options(executionMode, dumpMode) ]

InputFormatterTask(p) ==
    [ kind |-> "InputFormatterTask",
      originId |-> pipelineQueryPlan.originId[p] ]

(***************************************************************************)
(* processSink, lines 148-158: find the record of the sink by id, create   *)
(* it when there is none, append the predecessor.                          *)
(***************************************************************************)
FindSink(snk, id) ==
    IF \E k \in 1..Len(snk) : snk[k].id = id
    THEN CHOOSE k \in 1..Len(snk) : snk[k].id = id /\ \A j \in 1..(k - 1) : snk[j].id # id
    ELSE 0

\* processSink with the predecessor put in front of the list.
processSink_prepend(snk, predecessor, p) ==
    LET it    == FindSink(snk, getPipelineId(p))
        found == IF it = 0
                 THEN Append(snk, [id |-> getPipelineId(p), descriptor |-> SinkDescriptor(p), predecessor |-> <<>>])
                 ELSE snk
        at    == IF it = 0 THEN Len(found) ELSE it
    IN  [found EXCEPT ![at].predecessor = <<predecessor>> \o @]

\* processSink with the predecessor list overwritten on every arrival.
processSink_replace(snk, predecessor, p) ==
    LET it    == FindSink(snk, getPipelineId(p))
        found == IF it = 0
                 THEN Append(snk, [id |-> getPipelineId(p), descriptor |-> SinkDescriptor(p), predecessor |-> <<>>])
                 ELSE snk
        at    == IF it = 0 THEN Len(found) ELSE it
    IN  [found EXCEPT ![at].predecessor = <<predecessor>>]

processSink(snk, predecessor, p) ==
    LET it    == FindSink(snk, getPipelineId(p))
        found == IF it = 0
                 THEN Append(snk, [id |-> getPipelineId(p), descriptor |-> SinkDescriptor(p), predecessor |-> <<>>])
                 ELSE snk
        at    == IF it = 0 THEN Len(found) ELSE it
    IN  [found EXCEPT ![at].predecessor = Append(@, predecessor)]

(***************************************************************************)
(* The structure of a plan, for the history of invocations: every          *)
(* reference to an ExecutablePipeline is replaced by what it refers to, so *)
(* that plans built at different addresses can be compared.                *)
(***************************************************************************)
RECURSIVE Unfold(_, _)
Unfold(h, a) ==
    [ id |-> h[a].id,
      stage |-> h[a].stage,
      successors |-> [k \in 1..Len(h[a].successors) |-> Unfold(h, h[a].successors[k])] ]

UnfoldPredecessor(h, pred) ==
    IF pred.kind = "OriginId" THEN pred ELSE [kind |-> pred.kind, ref |-> Unfold(h, pred.ref)]

Structure(h, map, snk, src) ==
    LET values == { Unfold(h, map[k]) : k \in DOMAIN map }
    IN  [ pipelines |-> [u \in values |-> Cardinality({ k \in DOMAIN map : Unfold(h, map[k]) = u })],
          sinks     |-> [k \in 1..Len(snk) |->
                            [ id |-> snk[k].id,
                              descriptor |-> snk[k].descriptor,
                              predecessor |-> [j \in 1..Len(snk[k].predecessor) |->
                                                  UnfoldPredecessor(h, snk[k].predecessor[j])] ]],
          sources   |-> [k \in 1..Len(src) |->
                            [ originId |-> src[k].originId,
                              descriptor |-> src[k].descriptor,
                              successors |-> [j \in 1..Len(src[k].successors) |->
                                                 Unfold(h, src[k].successors[j])] ]] ]

(***************************************************************************)
(* apply, lines 227-240.                                                   *)
(***************************************************************************)
\* Line 229 and the initialiser of the loop of line 232.
applyBegin ==
    /\ status = "idle"
    /\ status' = "running"
    /\ stack' = << Frame("apply", 0, 0, getSourcePipelines(pipelineQueryPlan)) >>
    /\ UNCHANGED << pipelineQueryPlan, executionMode, dumpMode, heap, pipelineToExecutableMap,
                    sinks, sources, nextPipelineId, compiledPlan, arrivals, invocations, otherVars >>

\* Lines 232-234 with the entry of processSource, lines 113-123: the
\* formatter pipeline of the source is created with the id of the source
\* pipeline and no successors.
applyProcessSource ==
    /\ status = "running"
    /\ stack # <<>>
    /\ Top.fn = "apply"
    /\ Top.i <= Len(Top.list)
    /\ LET p    == Top.list[Top.i]
           addr == Len(heap) + 1
       IN  /\ isSourcePipeline(p)
           /\ heap' = Append(heap, ExecutablePipeline(p, InputFormatterTask(p), <<>>))
           /\ stack' = Append([stack EXCEPT ![Len(stack)].i = @ + 1],
                              Frame("processSource", p, addr, <<>>))
    /\ UNCHANGED << pipelineQueryPlan, executionMode, dumpMode, pipelineToExecutableMap,
                    sinks, sources, nextPipelineId, status, compiledPlan, arrivals, invocations, otherVars >>

\* The plan built from copies: the memo map and the two record lists stay
\* as they are in the phase object.
applyReturn_copies ==
    /\ status = "running"
    /\ stack # <<>>
    /\ Top.fn = "apply"
    /\ Top.i > Len(Top.list)
    /\ compiledPlan' =
          [ returned  |-> TRUE,
            pipelines |-> { pipelineToExecutableMap[k] : k \in DOMAIN pipelineToExecutableMap },
            sinks     |-> sinks,
            sources   |-> sources ]
    /\ stack' = <<>>
    /\ status' = "returned"
    /\ invocations' = Append(invocations,
                              [ successors |-> pipelineQueryPlan.successors,
                                parserType |-> pipelineQueryPlan.parserType,
                                output     |-> Structure(heap, pipelineToExecutableMap, sinks, sources) ])
    /\ UNCHANGED << pipelineQueryPlan, executionMode, dumpMode, heap, nextPipelineId, arrivals,
                    pipelineToExecutableMap, sinks, sources, otherVars >>

\* Lines 237-239: the values of the memo map become the plan's pipelines;
\* the map and the two record lists are moved into the plan.
applyReturn ==
    /\ status = "running"
    /\ stack # <<>>
    /\ Top.fn = "apply"
    /\ Top.i > Len(Top.list)
    /\ compiledPlan' =
          [ returned  |-> TRUE,
            pipelines |-> { pipelineToExecutableMap[k] : k \in DOMAIN pipelineToExecutableMap },
            sinks     |-> sinks,
            sources   |-> sources ]
    /\ pipelineToExecutableMap' = EmptyMap
    /\ sinks' = <<>>
    /\ sources' = <<>>
    /\ stack' = <<>>
    /\ status' = "returned"
    /\ invocations' = Append(invocations,
                              [ successors |-> pipelineQueryPlan.successors,
                                parserType |-> pipelineQueryPlan.parserType,
                                output     |-> Structure(heap, pipelineToExecutableMap, sinks, sources) ])
    /\ UNCHANGED << pipelineQueryPlan, executionMode, dumpMode, heap, nextPipelineId, arrivals, otherVars >>

(***************************************************************************)
(* processSuccessor, lines 45-56, called from the loops of lines 73-79,    *)
(* 95-101, 125-131 and 215-221.                                            *)
(***************************************************************************)
\* processSuccessor that hands the sink back as a successor: an
\* ExecutablePipeline with the id of the sink is created and the caller
\* appends it.
processSuccessorSink_wired ==
    /\ InLoop
    /\ isSinkPipeline(NextSuccessor) \/ isOperatorPipeline(NextSuccessor)
    /\ isSinkPipeline(NextSuccessor)
    /\ sinks' = processSink(sinks, PredecessorOf(Top), NextSuccessor)
    /\ arrivals' = Append(arrivals, [sink |-> NextSuccessor, predecessor |-> PredecessorOf(Top)])
    /\ heap' = HeapAfterSuccessor(Top,
                    Append(heap, ExecutablePipeline(NextSuccessor, getStage(NextSuccessor), <<>>)),
                    Len(heap) + 1)
    /\ stack' = [stack EXCEPT ![Len(stack)] = FrameAfterSuccessor(@, Len(heap) + 1)]
    /\ UNCHANGED << pipelineQueryPlan, executionMode, dumpMode, pipelineToExecutableMap,
                    sources, nextPipelineId, status, compiledPlan, invocations, otherVars >>

\* Lines 50-54: a sink. processSink records the predecessor; the caller
\* gets no successor.
processSuccessorSink ==
    /\ InLoop
    /\ isSinkPipeline(NextSuccessor) \/ isOperatorPipeline(NextSuccessor)
    /\ isSinkPipeline(NextSuccessor)
    /\ sinks' = processSink(sinks, PredecessorOf(Top), NextSuccessor)
    /\ arrivals' = Append(arrivals, [sink |-> NextSuccessor, predecessor |-> PredecessorOf(Top)])
    /\ stack' = [stack EXCEPT ![Len(stack)].i = @ + 1]
    /\ UNCHANGED << pipelineQueryPlan, executionMode, dumpMode, heap, pipelineToExecutableMap,
                    sources, nextPipelineId, status, compiledPlan, invocations, otherVars >>

\* Lines 55 and 209-212: an operator pipeline the memo map holds. The
\* stored instance is returned and the caller appends it.
processOperatorPipelineMemoized ==
    /\ InLoop
    /\ isSinkPipeline(NextSuccessor) \/ isOperatorPipeline(NextSuccessor)
    /\ ~isSinkPipeline(NextSuccessor)
    /\ contains(pipelineToExecutableMap, NextSuccessor)
    /\ LET e == pipelineToExecutableMap[NextSuccessor]
       IN  /\ heap' = HeapAfterSuccessor(Top, heap, e)
           /\ stack' = [stack EXCEPT ![Len(stack)] = FrameAfterSuccessor(@, e)]
    /\ UNCHANGED << pipelineQueryPlan, executionMode, dumpMode, pipelineToExecutableMap,
                    sinks, sources, nextPipelineId, status, compiledPlan, arrivals, invocations, otherVars >>

\* The ExecutablePipeline entered into the memo map when it is created,
\* ahead of the walk over its successors.
processOperatorPipelineCreate_memoizeFirst ==
    /\ InLoop
    /\ isSinkPipeline(NextSuccessor) \/ isOperatorPipeline(NextSuccessor)
    /\ ~isSinkPipeline(NextSuccessor)
    /\ ~contains(pipelineToExecutableMap, NextSuccessor)
    /\ ValidBackend(executionMode)
    /\ heap' = Append(heap, ExecutablePipeline(NextSuccessor, getStage(NextSuccessor), <<>>))
    /\ pipelineToExecutableMap' = emplace(pipelineToExecutableMap, NextSuccessor, Len(heap) + 1)
    /\ stack' = Append(stack, Frame("processOperatorPipeline", NextSuccessor, Len(heap) + 1, <<>>))
    /\ UNCHANGED << pipelineQueryPlan, executionMode, dumpMode,
                    sinks, sources, nextPipelineId, status, compiledPlan, arrivals, invocations, otherVars >>

\* Lines 55, 209 and 213: an operator pipeline the memo map does not hold.
\* Its ExecutablePipeline is created with the stage of getStage and the walk
\* enters its successors.
processOperatorPipelineCreate ==
    /\ InLoop
    /\ isSinkPipeline(NextSuccessor) \/ isOperatorPipeline(NextSuccessor)
    /\ ~isSinkPipeline(NextSuccessor)
    /\ ~contains(pipelineToExecutableMap, NextSuccessor)
    /\ ValidBackend(executionMode)
    /\ heap' = Append(heap, ExecutablePipeline(NextSuccessor, getStage(NextSuccessor), <<>>))
    /\ stack' = Append(stack, Frame("processOperatorPipeline", NextSuccessor, Len(heap) + 1, <<>>))
    /\ UNCHANGED << pipelineQueryPlan, executionMode, dumpMode, pipelineToExecutableMap,
                    sinks, sources, nextPipelineId, status, compiledPlan, arrivals, invocations, otherVars >>

\* Lines 223-224 and the caller's append: the pipeline enters the memo map
\* under the id of its logical pipeline and is returned.
processOperatorPipelineReturn ==
    /\ LoopDone
    /\ Top.fn = "processOperatorPipeline"
    /\ LET e      == Top.self
           caller == stack[Len(stack) - 1]
       IN  /\ pipelineToExecutableMap' = emplace(pipelineToExecutableMap, Top.pipeline, e)
           /\ heap' = HeapAfterSuccessor(caller, heap, e)
           /\ stack' = [Pop(1) EXCEPT ![Len(stack) - 1] = FrameAfterSuccessor(@, e)]
    /\ UNCHANGED << pipelineQueryPlan, executionMode, dumpMode, sinks, sources,
                    nextPipelineId, status, compiledPlan, arrivals, invocations, otherVars >>

(***************************************************************************)
(* processSource, lines 108-146, and injectFormatter, lines 63-106.        *)
(***************************************************************************)
\* The comparison of line 70 taken for true whatever the parser type.
isRaw_always(p) == TRUE

isRaw(p) == toLowerCase(pipelineQueryPlan.parserType[p]) = <<"r", "a", "w">>

\* Lines 133-141, then the call of injectFormatter in the argument list of
\* line 145 up to its loop (lines 69-72 or 69-94).
processSourceInject ==
    /\ LoopDone
    /\ Top.fn = "processSource"
    /\ LET p == Top.pipeline
           f == Top.self
       IN  /\ pipelineQueryPlan' = removePipeline(pipelineQueryPlan, p)
           /\ pipelineToExecutableMap' = emplace(pipelineToExecutableMap, nextPipelineId, f)
           /\ nextPipelineId' = nextPipelineId + 1
           /\ sources' = Append(sources,
                                [ originId    |-> pipelineQueryPlan.originId[p],
                                  descriptor  |-> SourceDescriptor(p),
                                  successors  |-> <<f>> ])
           /\ IF isRaw(p)
              THEN /\ heap' = heap
                   /\ stack' = Append(stack, Frame("injectFormatter", p, 0, <<>>))
              ELSE /\ heap' = Append(heap, ExecutablePipeline(p, InputFormatterTask(p), <<>>))
                   /\ stack' = Append(stack, Frame("injectFormatter", p, Len(heap) + 1, <<>>))
    /\ UNCHANGED << executionMode, dumpMode, sinks, status, compiledPlan, arrivals, invocations, otherVars >>

\* Lines 80 or 102-105, then line 142: the source record with the list
\* injectFormatter returned. processSource returns to apply.
injectFormatterReturn ==
    /\ LoopDone
    /\ Top.fn = "injectFormatter"
    /\ LET p == Top.pipeline
           f == Top.self
       IN  IF f = 0
           THEN /\ sources' = Append(sources,
                                     [ originId   |-> pipelineQueryPlan.originId[p],
                                       descriptor |-> SourceDescriptor(p),
                                       successors |-> Top.list ])
                /\ UNCHANGED << heap, pipelineToExecutableMap, otherVars >>
           ELSE /\ heap' = [heap EXCEPT ![f].successors = Top.list]
                /\ pipelineToExecutableMap' = emplace(pipelineToExecutableMap, heap[f].id, f)
                /\ sources' = Append(sources,
                                     [ originId   |-> pipelineQueryPlan.originId[p],
                                       descriptor |-> SourceDescriptor(p),
                                       successors |-> <<f>> ])
    /\ stack' = Pop(2)
    /\ UNCHANGED << pipelineQueryPlan, executionMode, dumpMode, sinks, nextPipelineId,
                    status, compiledPlan, arrivals, invocations, otherVars >>

Next ==
    \/ applyBegin
    \/ applyProcessSource
    \/ processSuccessorSink
    \/ processOperatorPipelineMemoized
    \/ processOperatorPipelineCreate
    \/ processOperatorPipelineReturn
    \/ processSourceInject
    \/ injectFormatterReturn
    \/ applyReturn

Spec == Init /\ [][Next]_vars

(***************************************************************************)
(* The fatal paths: PRECONDITION of processSuccessor (line 48) and         *)
(* INVARIANT of getStage (line 176).  Both end the process; no plan is     *)
(* returned.  They are reached only from plans and configurations an       *)
(* upstream phase must not produce, which InitAbort adds: a source         *)
(* pipeline listed as a successor, the twin of sink 5, and an execution    *)
(* mode outside the enumeration.                                           *)
(***************************************************************************)
DumpModes == {"NONE", "CONSOLE", "FILE", "FILE_AND_CONSOLE"}
ModeSettings == ({"COMPILER", "INTERPRETER"} \X DumpModes) \cup { <<"INVALID", "NONE">> }

\* Source 1 and the operators may list source 2 and the twin sink as well;
\* source 2 has no successors, so the plans stay acyclic.
EdgesAbort ==
    { e \in Edges : e[1] # 2 }
      \cup { <<n, 2>> : n \in {1} \cup OperatorIds }
      \cup { <<n, TwinSink>> : n \in {1} \cup OperatorIds }

RECURSIVE SuccessorListsOver(_, _)
SuccessorListsOver(edges, k) ==
    IF k = 0
    THEN { [n \in PipelineIds |-> <<>>] }
    ELSE LET prev == SuccessorListsOver(edges, k - 1)
         IN  prev \cup { [s EXCEPT ![e[1]] = Append(@, e[2])] : s \in prev, e \in edges }

PlansAbort ==
    { succ \in SuccessorListsOver(EdgesAbort, MaxEdges - 2) :
        \A n \in PipelineIds : succ[n] # <<>> => n \in ReachableFrom(succ, {1}) }

InitAbort ==
    /\ \E succ \in PlansAbort, parser \in [SourceIds -> ParserTypes] :
          pipelineQueryPlan =
              [ successors |-> succ,
                parserType |-> parser,
                originId   |-> [s \in SourceIds |-> s],
                pipelines  |-> <<1, 2>> ]
    /\ \E m \in ModeSettings :
          /\ executionMode = m[1]
          /\ dumpMode = m[2]
    /\ heap = <<>>
    /\ pipelineToExecutableMap = EmptyMap
    /\ sinks = <<>>
    /\ sources = <<>>
    /\ nextPipelineId = MaxPipelineId + 1
    /\ stack = <<>>
    /\ status = "idle"
    /\ compiledPlan = NoPlan
    /\ arrivals = <<>>
    /\ invocations = <<>>
    /\ OthersIdle

\* The precondition evaluated after the pipeline was handed on: an
\* ExecutablePipeline is created for the successor before the abort.
processSuccessorPrecondition_afterCreate ==
    /\ InLoop
    /\ ~(isSinkPipeline(NextSuccessor) \/ isOperatorPipeline(NextSuccessor))
    /\ heap' = Append(heap, ExecutablePipeline(NextSuccessor, InputFormatterTask(NextSuccessor), <<>>))
    /\ status' = "aborted"
    /\ UNCHANGED << pipelineQueryPlan, executionMode, dumpMode, pipelineToExecutableMap,
                    sinks, sources, nextPipelineId, stack, compiledPlan, arrivals, invocations, otherVars >>

\* Line 48: the successor is neither a sink nor an operator pipeline.
processSuccessorPrecondition ==
    /\ InLoop
    /\ ~(isSinkPipeline(NextSuccessor) \/ isOperatorPipeline(NextSuccessor))
    /\ status' = "aborted"
    /\ UNCHANGED << pipelineQueryPlan, executionMode, dumpMode, heap, pipelineToExecutableMap,
                    sinks, sources, nextPipelineId, stack, compiledPlan, arrivals, invocations, otherVars >>

\* The default branch of the switch without the abort: the stage is built
\* with the options of the interpreter and the walk goes on.
getStageInvalidBackend_interpreted ==
    /\ InLoop
    /\ isSinkPipeline(NextSuccessor) \/ isOperatorPipeline(NextSuccessor)
    /\ ~isSinkPipeline(NextSuccessor)
    /\ ~contains(pipelineToExecutableMap, NextSuccessor)
    /\ ~ValidBackend(executionMode)
    /\ heap' = Append(heap, ExecutablePipeline(NextSuccessor,
                                               [ kind |-> "CompiledExecutablePipelineStage",
                                                 pipeline |-> NextSuccessor,
                                                 options |-> Options("INTERPRETER", dumpMode) ],
                                               <<>>))
    /\ stack' = Append(stack, Frame("processOperatorPipeline", NextSuccessor, Len(heap) + 1, <<>>))
    /\ UNCHANGED << pipelineQueryPlan, executionMode, dumpMode, pipelineToExecutableMap,
                    sinks, sources, nextPipelineId, status, compiledPlan, arrivals, invocations, otherVars >>

\* Lines 213 and 165-177: getStage is evaluated before
\* ExecutablePipeline::create and meets a backend that is neither COMPILER
\* nor INTERPRETER.
getStageInvalidBackend ==
    /\ InLoop
    /\ isSinkPipeline(NextSuccessor) \/ isOperatorPipeline(NextSuccessor)
    /\ ~isSinkPipeline(NextSuccessor)
    /\ ~contains(pipelineToExecutableMap, NextSuccessor)
    /\ ~ValidBackend(executionMode)
    /\ status' = "aborted"
    /\ UNCHANGED << pipelineQueryPlan, executionMode, dumpMode, heap, pipelineToExecutableMap,
                    sinks, sources, nextPipelineId, stack, compiledPlan, arrivals, invocations, otherVars >>

NextAbort ==
    \/ Next
    \/ processSuccessorPrecondition
    \/ getStageInvalidBackend

SpecAbort == InitAbort /\ [][NextAbort]_vars

\* The walk is one thread of control that blocks on nothing: a step that
\* can be taken is taken.
FairSpecAbort == SpecAbort /\ WF_vars(NextAbort)

(***************************************************************************)
(* One phase object used for several plans.  apply is called on a fresh    *)
(* object with a plan, then on the same object with any other plan, then   *)
(* with the first plan again.  The members are what the previous apply     *)
(* left in them; invocations keeps the plan each call returned.            *)
(***************************************************************************)
EdgesReuse == { e \in Edges : e[1] # 2 }
ParsersReuse == { f \in [SourceIds -> ParserTypes] : f[2] = <<"r", "a", "w">> }
PlansLater ==
    { succ \in SuccessorListsOver(EdgesReuse, MaxEdges - 2) :
        \A n \in PipelineIds : succ[n] # <<>> => n \in ReachableFrom(succ, {1}) }
PlansEarlier ==
    { succ \in SuccessorListsOver(EdgesReuse, MaxEdges - 3) :
        \A n \in PipelineIds : succ[n] # <<>> => n \in ReachableFrom(succ, {1}) }

InitReuse ==
    /\ \E succ \in PlansLater, parser \in ParsersReuse :
          pipelineQueryPlan =
              [ successors |-> succ,
                parserType |-> parser,
                originId   |-> [s \in SourceIds |-> s],
                pipelines  |-> <<1, 2>> ]
    /\ executionMode = "COMPILER"
    /\ dumpMode = "NONE"
    /\ heap = <<>>
    /\ pipelineToExecutableMap = EmptyMap
    /\ sinks = <<>>
    /\ sources = <<>>
    /\ nextPipelineId = MaxPipelineId + 1
    /\ stack = <<>>
    /\ status = "idle"
    /\ compiledPlan = NoPlan
    /\ arrivals = <<>>
    /\ invocations = <<>>
    /\ OthersIdle

\* The caller takes the returned plan and hands the next plan to apply: any
\* plan after the first call, the plan of the first call after the second.
applyAgain ==
    /\ status = "returned"
    /\ Len(invocations) \in {1, 2}
    /\ \E succ \in PlansEarlier \cup {invocations[1].successors},
          parser \in ParsersReuse \cup {invocations[1].parserType} :
          /\ Len(invocations) = 1 => (succ \in PlansEarlier /\ parser \in ParsersReuse)
          /\ Len(invocations) = 2 =>
                (succ = invocations[1].successors /\ parser = invocations[1].parserType)
          /\ pipelineQueryPlan' =
                [ successors |-> succ,
                  parserType |-> parser,
                  originId   |-> [s \in SourceIds |-> s],
                  pipelines  |-> <<1, 2>> ]
    /\ status' = "idle"
    /\ compiledPlan' = NoPlan
    /\ arrivals' = <<>>
    /\ UNCHANGED << executionMode, dumpMode, heap, pipelineToExecutableMap, sinks, sources,
                    nextPipelineId, stack, invocations, otherVars >>

NextReuse ==
    \/ Next
    \/ applyAgain

SpecReuse == InitReuse /\ [][NextReuse]_vars

(***************************************************************************)
(* SystestParser.  A line is modelled by what the parser reads of it: its  *)
(* first word, whether it is empty, whether it ends with a semicolon.      *)
(* Statements with a body of their own that is not a query or a list of    *)
(* tuples (CREATE, Source, Attach, MODEL) are left out.                    *)
(***************************************************************************)
MaxLines == 5

\* The lines of an input: a comment line, an empty line, a query line with
\* and without a closing semicolon, a line of data, the two delimiters, an
\* error expectation and a sink statement.
InputLines == { "#", "", "SELECT", "SELECT;", "text", "----", "====", "ERROR", "SINK" }

\* The inputs of n lines.
Inputs(n) == [1..n -> InputLines]

\* The lines of the inputs given to a parser that is loaded twice.
InputLinesReuse == { "", "SELECT", "text", "----", "====" }
InputsReuse(n) == [1..n -> InputLinesReuse]


\* Lines 49-54.
emptyOrComment(line) == line = "" \/ line = "#"

\* Lines 395-418: the token of the first word of the line.
getTokenIfValid(line) ==
    CASE line \in {"SELECT", "SELECT;"} -> optional("QUERY")
      [] line = "----"  -> optional("RESULT_DELIMITER")
      [] line = "===="  -> optional("DIFFERENTIAL")
      [] line = "ERROR" -> optional("ERROR_EXPECTATION")
      [] line = "SINK"  -> optional("SINK")
      [] OTHER          -> nullopt

\* Lines 226-236 of loadString: a line that starts with a comment is not
\* loaded.
LoadedLines(input) == SelectSeq(input, LAMBDA l : l # "#")

\* lines[n], n counted from 0 as in the code.
LineAt(ls, n) == ls[n + 1]

\* Lines 436-440 and 469-472: the first line from n on that is not empty.
RECURSIVE SkipEmpty(_, _)
SkipEmpty(ls, n) ==
    IF n < Len(ls) /\ emptyOrComment(LineAt(ls, n)) THEN SkipEmpty(ls, n + 1) ELSE n

\* Lines 420-444.
moveToNextToken(ls, cur, first, revisit) ==
    LET from == IF first \/ revisit THEN cur ELSE cur + 1
    IN  [ currentLine |-> SkipEmpty(ls, from),
          firstToken |-> FALSE,
          shouldRevisitCurrentLine |-> IF first THEN revisit ELSE FALSE ]

\* Lines 465-482.
peekToken(ls, cur) ==
    LET peekLine == SkipEmpty(ls, cur + 1)
    IN  IF peekLine >= Len(ls) THEN nullopt ELSE getTokenIfValid(LineAt(ls, peekLine))

\* Lines 711-731: the line at which the tuples end, an empty line, a line
\* with a token or the end of the input.
RECURSIVE TuplesEnd(_, _)
TuplesEnd(ls, n) ==
    IF n >= Len(ls) THEN n
    ELSE IF LineAt(ls, n) = "" THEN n
    ELSE IF getTokenIfValid(LineAt(ls, n)).has_value THEN n
    ELSE TuplesEnd(ls, n + 1)

\* Lines 702-733: the current line after expectTuples.
expectTuples(ls, cur, ignoreFirst) ==
    LET from == IF cur < Len(ls) /\ (LineAt(ls, cur) = "----" \/ ignoreFirst) THEN cur + 1 ELSE cur
    IN  TuplesEnd(ls, from)

endsWithSemicolon(line) == line = "SELECT;"

\* Lines 795-841: the loop of expectQuery from line n with the query text
\* collected so far.
RECURSIVE QueryLoop(_, _, _, _)
QueryLoop(ls, n, stopTokens, queryString) ==
    IF n >= Len(ls)
    THEN [currentLine |-> n, queryString |-> queryString]
    ELSE LET line == LineAt(ls, n)
         IN  IF emptyOrComment(line)
             THEN IF queryString # <<>> /\ endsWithSemicolon(queryString[Len(queryString)])
                  THEN [currentLine |-> n, queryString |-> queryString]
                  ELSE QueryLoop(ls, n + 1, stopTokens, queryString)
             ELSE IF /\ getTokenIfValid(line).has_value
                     /\ getTokenIfValid(line).value \in stopTokens
                  THEN [currentLine |-> n, queryString |-> queryString]
                  ELSE QueryLoop(ls, n + 1, stopTokens, Append(queryString, line))

\* Lines 790-852: the query text, the current line and the revisit flag
\* after expectQuery; an empty query throws (lines 844-847).
expectQuery(ls, cur, stopTokens) ==
    LET r == QueryLoop(ls, cur, stopTokens, <<>>)
    IN  [ thrown |-> r.queryString = <<>>,
          queryString |-> r.queryString,
          currentLine |-> r.currentLine,
          shouldRevisitCurrentLine |-> r.currentLine < Len(ls) ]

DefaultQueryStopTokens == {"RESULT_DELIMITER", "DIFFERENTIAL"}
differentialStopTokens == {"RESULT_DELIMITER", "DIFFERENTIAL", "ERROR_EXPECTATION", "CREATE"}

\* The lowering pass is not part of the runs of the other components.
LoweringUnused ==
    /\ pipelineQueryPlan = <<>>
    /\ executionMode = "COMPILER"
    /\ dumpMode = "NONE"
    /\ heap = <<>>
    /\ pipelineToExecutableMap = EmptyMap
    /\ sinks = <<>>
    /\ sources = <<>>
    /\ nextPipelineId = MaxPipelineId + 1
    /\ stack = <<>>
    /\ status = "unused"
    /\ compiledPlan = NoPlan
    /\ arrivals = <<>>
    /\ invocations = <<>>

outsideParser == << loweringVars, mqttVars, serdeVars, traitVars, meosVars, epochVars >>

InitParser ==
    /\ LoweringUnused
    /\ SystestParserInit
    /\ MQTTSinkIdle
    /\ SerdeIdle
    /\ TraitIdle
    /\ MeosIdle
    /\ EpochIdle

\* loadString, lines 216-239: the cursor goes to line 0 and the lines are
\* replaced; no other member is written.
loadString(input) ==
    /\ currentLine' = 0
    /\ lines' = LoadedLines(input)
    /\ parserStatus' = "loaded"
    /\ UNCHANGED << firstToken, shouldRevisitCurrentLine, lastParsedQuery, lastParsedQueryId,
                    queryIdAssigner, parseCalls, callbacks, outsideParser >>

load ==
    /\ parserStatus = "constructed"
    /\ \E n \in 0..MaxLines : \E input \in Inputs(n) : loadString(input)

\* Line 289: parse() starts with an assigner of its own.
parseBegin ==
    /\ parserStatus = "loaded"
    /\ parserStatus' = "parsing"
    /\ queryIdAssigner' = [query |-> 1, result |-> 1]
    /\ parseCalls' = parseCalls + 1
    /\ UNCHANGED << lines, currentLine, firstToken, shouldRevisitCurrentLine, lastParsedQuery,
                    lastParsedQueryId, callbacks, outsideParser >>

\* getNextToken, lines 446-463, at the head of the loop of line 290.
Moved == moveToNextToken(lines, currentLine, firstToken, shouldRevisitCurrentLine)
AtToken(token) ==
    /\ parserStatus = "parsing"
    /\ Moved.currentLine < Len(lines)
    /\ getTokenIfValid(LineAt(lines, Moved.currentLine)) = optional(token)

\* A callback with the line of its token and the line after its body.
Callback(name, line, to, arguments) ==
    [callback |-> name, call |-> parseCalls, line |-> line, to |-> to, arguments |-> arguments]

\* Lines 448-451: no line is left; parse() returns.
parseEnd ==
    /\ parserStatus = "parsing"
    /\ Moved.currentLine >= Len(lines)
    /\ parserStatus' = "done"
    /\ currentLine' = Moved.currentLine
    /\ firstToken' = Moved.firstToken
    /\ shouldRevisitCurrentLine' = Moved.shouldRevisitCurrentLine
    /\ UNCHANGED << lines, lastParsedQuery, lastParsedQueryId, queryIdAssigner, parseCalls,
                    callbacks, outsideParser >>

\* Line 462 and lines 376-378: a line without a token, or an error
\* expectation that follows no result delimiter, throws.
parseThrows ==
    /\ parserStatus = "parsing"
    /\ Moved.currentLine < Len(lines)
    /\ getTokenIfValid(LineAt(lines, Moved.currentLine)) \in {nullopt, optional("ERROR_EXPECTATION")}
    /\ parserStatus' = "failed"
    /\ currentLine' = Moved.currentLine
    /\ firstToken' = Moved.firstToken
    /\ shouldRevisitCurrentLine' = Moved.shouldRevisitCurrentLine
    /\ UNCHANGED << lines, lastParsedQuery, lastParsedQueryId, queryIdAssigner, parseCalls,
                    callbacks, outsideParser >>

\* Lines 324-332: expectSink reads the current line.
parseSink ==
    /\ AtToken("SINK")
    /\ currentLine' = Moved.currentLine
    /\ firstToken' = Moved.firstToken
    /\ shouldRevisitCurrentLine' = Moved.shouldRevisitCurrentLine
    /\ callbacks' = Append(callbacks,
                           Callback("onSystestSink", Moved.currentLine, Moved.currentLine + 1, <<>>))
    /\ UNCHANGED << lines, lastParsedQuery, lastParsedQueryId, queryIdAssigner, parseCalls,
                    parserStatus, outsideParser >>

\* Lines 334-346.
parseQuery ==
    /\ AtToken("QUERY")
    /\ LET query   == expectQuery(lines, Moved.currentLine, DefaultQueryStopTokens)
           queryId == queryIdAssigner.query
       IN  /\ currentLine' = query.currentLine
           /\ firstToken' = Moved.firstToken
           /\ shouldRevisitCurrentLine' = query.shouldRevisitCurrentLine
           /\ lastParsedQuery' = optional(query.queryString)
           /\ lastParsedQueryId' = optional(queryId)
           /\ queryIdAssigner' = [queryIdAssigner EXCEPT !.query = @ + 1]
           /\ callbacks' = Append(callbacks,
                                  Callback("onQuery", Moved.currentLine, query.currentLine,
                                           [query |-> query.queryString, queryId |-> queryId]))
    /\ UNCHANGED << lines, parseCalls, parserStatus, outsideParser >>

\* Lines 348-351 and 362-368: a result delimiter that no error expectation
\* follows; expectTuples reads the tuples.
parseResultTuples ==
    /\ AtToken("RESULT_DELIMITER")
    /\ peekToken(lines, Moved.currentLine) # optional("ERROR_EXPECTATION")
    /\ LET to == expectTuples(lines, Moved.currentLine, FALSE)
       IN  /\ currentLine' = to
           /\ callbacks' = Append(callbacks,
                                  Callback("onResultTuples", Moved.currentLine, to,
                                           [queryId |-> queryIdAssigner.result]))
    /\ firstToken' = Moved.firstToken
    /\ shouldRevisitCurrentLine' = Moved.shouldRevisitCurrentLine
    /\ queryIdAssigner' = [queryIdAssigner EXCEPT !.result = @ + 1]
    /\ UNCHANGED << lines, lastParsedQuery, lastParsedQueryId, parseCalls, parserStatus,
                    outsideParser >>

\* Lines 349-361: the next token is an error expectation; the cursor goes
\* one line on and expectError reads that line.
parseErrorExpectation ==
    /\ AtToken("RESULT_DELIMITER")
    /\ peekToken(lines, Moved.currentLine) = optional("ERROR_EXPECTATION")
    /\ LineAt(lines, Moved.currentLine + 1) = "ERROR"
    /\ currentLine' = Moved.currentLine + 1
    /\ firstToken' = Moved.firstToken
    /\ shouldRevisitCurrentLine' = Moved.shouldRevisitCurrentLine
    /\ queryIdAssigner' = [queryIdAssigner EXCEPT !.result = @ + 1]
    /\ callbacks' = Append(callbacks,
                           Callback("onErrorExpectation", Moved.currentLine, Moved.currentLine + 2,
                                    [queryId |-> queryIdAssigner.result]))
    /\ UNCHANGED << lines, lastParsedQuery, lastParsedQueryId, parseCalls, parserStatus,
                    outsideParser >>

\* Lines 352-353 and 897: the error expectation was peeked behind empty
\* lines; the line expectError reads has no ERROR token.
parseErrorExpectationInvariant ==
    /\ AtToken("RESULT_DELIMITER")
    /\ peekToken(lines, Moved.currentLine) = optional("ERROR_EXPECTATION")
    /\ LineAt(lines, Moved.currentLine + 1) # "ERROR"
    /\ parserStatus' = "aborted"
    /\ currentLine' = Moved.currentLine + 1
    /\ firstToken' = Moved.firstToken
    /\ shouldRevisitCurrentLine' = Moved.shouldRevisitCurrentLine
    /\ UNCHANGED << lines, lastParsedQuery, lastParsedQueryId, queryIdAssigner, parseCalls,
                    callbacks, outsideParser >>

\* Line 372: a differential block that no query precedes.
parseDifferentialInvariant ==
    /\ AtToken("DIFFERENTIAL")
    /\ ~(lastParsedQuery.has_value /\ lastParsedQueryId.has_value)
    /\ parserStatus' = "aborted"
    /\ currentLine' = Moved.currentLine
    /\ firstToken' = Moved.firstToken
    /\ shouldRevisitCurrentLine' = Moved.shouldRevisitCurrentLine
    /\ UNCHANGED << lines, lastParsedQuery, lastParsedQueryId, queryIdAssigner, parseCalls,
                    callbacks, outsideParser >>

\* Lines 374 and 871-880: the delimiter is the last line (the INVARIANT of
\* line 792 fails) or no query text follows it (line 846 throws).
parseDifferentialFails ==
    /\ AtToken("DIFFERENTIAL")
    /\ lastParsedQuery.has_value /\ lastParsedQueryId.has_value
    /\ \/ Moved.currentLine + 1 >= Len(lines)
       \/ expectQuery(lines, Moved.currentLine + 1, differentialStopTokens).thrown
    /\ parserStatus' = IF Moved.currentLine + 1 >= Len(lines) THEN "aborted" ELSE "failed"
    /\ currentLine' = Moved.currentLine + 1
    /\ firstToken' = Moved.firstToken
    /\ shouldRevisitCurrentLine' = FALSE
    /\ UNCHANGED << lines, lastParsedQuery, lastParsedQueryId, queryIdAssigner, parseCalls,
                    callbacks, outsideParser >>

\* The block parsed without lines 377-378: the right query does not become
\* the last parsed query.
parseDifferential_keepsLast ==
    /\ AtToken("DIFFERENTIAL")
    /\ lastParsedQuery.has_value /\ lastParsedQueryId.has_value
    /\ Moved.currentLine + 1 < Len(lines)
    /\ LET block               == expectQuery(lines, Moved.currentLine + 1, differentialStopTokens)
           leftQuery           == lastParsedQuery.value
           mainQueryId         == lastParsedQueryId.value
           differentialQueryId == queryIdAssigner.result
       IN  /\ ~block.thrown
           /\ currentLine' = block.currentLine
           /\ shouldRevisitCurrentLine' = block.shouldRevisitCurrentLine
           /\ UNCHANGED << lastParsedQuery, lastParsedQueryId >>
           /\ callbacks' = Append(callbacks,
                                  Callback("onDifferentialQueryBlock", Moved.currentLine, block.currentLine,
                                           [ leftQuery |-> leftQuery,
                                             rightQuery |-> block.queryString,
                                             mainQueryId |-> mainQueryId,
                                             differentialQueryId |-> differentialQueryId ]))
    /\ firstToken' = Moved.firstToken
    /\ queryIdAssigner' = [queryIdAssigner EXCEPT !.result = @ + 1]
    /\ UNCHANGED << lines, parseCalls, parserStatus, outsideParser >>

\* Lines 371-386 with expectDifferentialBlock, lines 854-884.
parseDifferential ==
    /\ AtToken("DIFFERENTIAL")
    /\ lastParsedQuery.has_value /\ lastParsedQueryId.has_value
    /\ Moved.currentLine + 1 < Len(lines)
    /\ LET block               == expectQuery(lines, Moved.currentLine + 1, differentialStopTokens)
           leftQuery           == lastParsedQuery.value
           mainQueryId         == lastParsedQueryId.value
           differentialQueryId == queryIdAssigner.result
       IN  /\ ~block.thrown
           /\ currentLine' = block.currentLine
           /\ shouldRevisitCurrentLine' = block.shouldRevisitCurrentLine
           /\ lastParsedQuery' = optional(block.queryString)
           /\ lastParsedQueryId' = optional(differentialQueryId)
           /\ callbacks' = Append(callbacks,
                                  Callback("onDifferentialQueryBlock", Moved.currentLine, block.currentLine,
                                           [ leftQuery |-> leftQuery,
                                             rightQuery |-> block.queryString,
                                             mainQueryId |-> mainQueryId,
                                             differentialQueryId |-> differentialQueryId ]))
    /\ firstToken' = Moved.firstToken
    /\ queryIdAssigner' = [queryIdAssigner EXCEPT !.result = @ + 1]
    /\ UNCHANGED << lines, parseCalls, parserStatus, outsideParser >>

NextParser ==
    \/ load
    \/ parseBegin
    \/ parseEnd
    \/ parseThrows
    \/ parseSink
    \/ parseQuery
    \/ parseResultTuples
    \/ parseErrorExpectation
    \/ parseErrorExpectationInvariant
    \/ parseDifferentialInvariant
    \/ parseDifferentialFails
    \/ parseDifferential

SpecParser == InitParser /\ [][NextParser]_vars

(***************************************************************************)
(* One parser object that loads and parses a second input after the first. *)
(***************************************************************************)
loadFirst ==
    /\ parserStatus = "constructed"
    /\ \E n \in 0..(MaxLines - 2) : \E input \in InputsReuse(n) : loadString(input)

loadAgain ==
    /\ parserStatus = "done"
    /\ parseCalls = 1
    /\ \E n \in 0..(MaxLines - 2) : \E input \in InputsReuse(n) : loadString(input)

NextParserReuse ==
    \/ loadFirst
    \/ loadAgain
    \/ parseBegin
    \/ parseEnd
    \/ parseThrows
    \/ parseQuery
    \/ parseResultTuples
    \/ parseDifferentialInvariant
    \/ parseDifferentialFails
    \/ parseDifferential

SpecParserReuse == InitParser /\ [][NextParserReuse]_vars

(***************************************************************************)
(* MQTTSink (MQTTSink.cpp, MQTTSink.hpp).                                  *)
(***************************************************************************)
MaxExecutes == 3

\* The configurations: each of the keys qos and cleanSession is given or not.
QosStrings == { "0", "1", "2", "3" }
BoolStrings == { "true", "false" }
Configs ==
    { [ k \in keys |-> IF k = "qos" THEN q ELSE c ] :
         keys \in SUBSET { "qos", "cleanSession" }, q \in QosStrings, c \in BoolStrings }

\* std::stoi on the strings of QosStrings.
stoi(str) ==
    CASE str = "0" -> 0
      [] str = "1" -> 1
      [] str = "2" -> 2
      [] str = "3" -> 3

\* The bool a configuration string stands for.
parseBool(str) == str = "true"

\* ConfigParametersMQTT::QOS, MQTTSink.hpp lines 187-203: the given value when
\* it is 0, 1 or 2, nothing for another value, 1 when the key is absent.
QOS(config) ==
    IF "qos" \in DOMAIN config
    THEN LET value == stoi(config["qos"])
         IN  IF value # 0 /\ value # 1 /\ value # 2 THEN nullopt ELSE optional(value)
    ELSE optional(1)

\* ConfigParametersMQTT::CLEAN_SESSION, MQTTSink.hpp lines 205-209: the given
\* value, the default true when the key is absent.
CLEAN_SESSION(config) ==
    IF "cleanSession" \in DOMAIN config
    THEN optional(parseBool(config["cleanSession"]))
    ELSE optional(TRUE)

\* validateAndFormat, MQTTSink.cpp lines 244-263: the validated parameters,
\* with cleanSession replaced by false when it was not given and qos is 2.
validateAndFormat(config) ==
    LET cleanSessionProvided == "cleanSession" \in DOMAIN config
        validatedQos == QOS(config).value
        validatedCleanSession == CLEAN_SESSION(config).value
    IN  [ qos |-> validatedQos,
          cleanSession |-> IF ~cleanSessionProvided /\ validatedQos = 2
                           THEN FALSE
                           ELSE validatedCleanSession ]

LoweringAndParserUnused ==
    /\ LoweringUnused
    /\ SystestParserInit

outsideMQTT == << loweringVars, parserVars, serdeVars, traitVars, meosVars, epochVars >>

InitMQTT ==
    /\ LoweringAndParserUnused
    /\ SerdeIdle
    /\ TraitIdle
    /\ MeosIdle
    /\ EpochIdle
    /\ mqttConfig \in Configs
    /\ validated = <<>>
    /\ qos = 0
    /\ cleanSession = FALSE
    /\ client = NoClient
    /\ mqttStatus = "configured"
    /\ executed = <<>>
    /\ executes = 0

\* RegisterMQTTSinkValidation, lines 265-268, on a configuration all of whose
\* parameters are valid.
validate ==
    /\ mqttStatus = "configured"
    /\ QOS(mqttConfig).has_value
    /\ validated' = validateAndFormat(mqttConfig)
    /\ mqttStatus' = "validated"
    /\ UNCHANGED << mqttConfig, qos, cleanSession, client, executed, executes, outsideMQTT >>

\* The same on a configuration whose qos is none of 0, 1 and 2: the
\* validation of the parameters throws.
validateThrows ==
    /\ mqttStatus = "configured"
    /\ ~QOS(mqttConfig).has_value
    /\ mqttStatus' = "InvalidConfigParameter"
    /\ UNCHANGED << mqttConfig, validated, qos, cleanSession, client, executed, executes, outsideMQTT >>

\* The constructor, lines 73-101: the members are read from the descriptor.
construct ==
    /\ mqttStatus = "validated"
    /\ qos' = validated.qos
    /\ cleanSession' = validated.cleanSession
    /\ mqttStatus' = "constructed"
    /\ UNCHANGED << mqttConfig, validated, client, executed, executes, outsideMQTT >>

\* Lines 128-135: the clean-session option of the connection.
effectiveCleanSession_configured == cleanSession
effectiveCleanSession == IF qos = 2 THEN FALSE ELSE cleanSession

\* start, lines 109-187, when the connection is made.
start ==
    /\ mqttStatus = "constructed"
    /\ client' = [ created |-> TRUE, connected |-> TRUE,
                   clean_session |-> effectiveCleanSession,
                   published |-> 0, waited |-> 0 ]
    /\ mqttStatus' = "started"
    /\ UNCHANGED << mqttConfig, validated, qos, cleanSession, executed, executes, outsideMQTT >>

\* start when connecting throws: CannotOpenSink, lines 183-186.
startThrows ==
    /\ mqttStatus = "constructed"
    /\ client' = [ created |-> TRUE, connected |-> FALSE,
                   clean_session |-> effectiveCleanSession,
                   published |-> 0, waited |-> 0 ]
    /\ mqttStatus' = "CannotOpenSink"
    /\ UNCHANGED << mqttConfig, validated, qos, cleanSession, executed, executes, outsideMQTT >>

\* The connection is lost (Callback::connection_lost, lines 51-54).
connection_lost ==
    /\ mqttStatus = "started"
    /\ client.connected
    /\ client' = [ client EXCEPT !.connected = FALSE ]
    /\ UNCHANGED << mqttConfig, validated, qos, cleanSession, mqttStatus, executed, executes, outsideMQTT >>

\* The client reconnects (automatic_reconnect, line 134; Callback::connected,
\* lines 46-49).
connected ==
    /\ mqttStatus = "started"
    /\ ~client.connected
    /\ client' = [ client EXCEPT !.connected = TRUE ]
    /\ UNCHANGED << mqttConfig, validated, qos, cleanSession, mqttStatus, executed, executes, outsideMQTT >>

\* The record of one execute call: the tuples of the buffer, whether the
\* client was connected, the messages published and the tokens waited for
\* by the call, and the exception it ended with.
Executed(numberOfTuples, published, waited, thrown) ==
    [ numberOfTuples |-> numberOfTuples, connected |-> client.connected,
      published |-> published, waited |-> waited, thrown |-> thrown ]

\* Lines 204-207: a buffer without tuples.
executeEmpty ==
    /\ mqttStatus = "started"
    /\ executes < MaxExecutes
    /\ executes' = executes + 1
    /\ executed' = Executed(0, 0, 0, "none")
    /\ UNCHANGED << mqttConfig, validated, qos, cleanSession, client, mqttStatus, outsideMQTT >>

\* Lines 210-213: tuples and a client that is not connected.
executeDisconnected ==
    /\ mqttStatus = "started"
    /\ executes < MaxExecutes
    /\ \E numberOfTuples \in 1..2 :
          /\ numberOfTuples # 0
          /\ ~client.connected
          /\ executed' = Executed(numberOfTuples, 0, 0, "CannotOpenSink")
    /\ executes' = executes + 1
    /\ UNCHANGED << mqttConfig, validated, qos, cleanSession, client, mqttStatus, outsideMQTT >>

\* Line 224: the token is waited for.
waitsForToken_qos2 == qos > 1
waitsForToken == qos > 0

\* Lines 215-228: tuples and a connected client; the message is published
\* and its token is waited for.
executePublish ==
    /\ mqttStatus = "started"
    /\ executes < MaxExecutes
    /\ \E numberOfTuples \in 1..2 :
          /\ numberOfTuples # 0
          /\ client.connected
          /\ LET waits == IF waitsForToken THEN 1 ELSE 0
             IN  /\ client' = [ client EXCEPT !.published = @ + 1, !.waited = @ + waits ]
                 /\ executed' = Executed(numberOfTuples, 1, waits, "none")
    /\ executes' = executes + 1
    /\ UNCHANGED << mqttConfig, validated, qos, cleanSession, mqttStatus, outsideMQTT >>

\* Lines 221-241: the same when waiting for the token throws.
executeWaitThrows ==
    /\ mqttStatus = "started"
    /\ executes < MaxExecutes
    /\ \E numberOfTuples \in 1..2 :
          /\ numberOfTuples # 0
          /\ client.connected
          /\ waitsForToken
          /\ client' = [ client EXCEPT !.published = @ + 1, !.waited = @ + 1 ]
          /\ executed' = Executed(numberOfTuples, 1, 1, "CannotOpenSink")
    /\ executes' = executes + 1
    /\ UNCHANGED << mqttConfig, validated, qos, cleanSession, mqttStatus, outsideMQTT >>

\* stop, lines 189-200.
stop ==
    /\ mqttStatus = "started"
    /\ client' = [ client EXCEPT !.connected = FALSE ]
    /\ mqttStatus' = "stopped"
    /\ UNCHANGED << mqttConfig, validated, qos, cleanSession, executed, executes, outsideMQTT >>

NextMQTT ==
    \/ validate
    \/ validateThrows
    \/ construct
    \/ start
    \/ startThrows
    \/ connection_lost
    \/ connected
    \/ executeEmpty
    \/ executeDisconnected
    \/ executePublish
    \/ executeWaitThrows
    \/ stop

SpecMQTT == InitMQTT /\ [][NextMQTT]_vars

(***************************************************************************)
(* The TemporalSequence aggregation and its serialization                  *)
(* (TemporalSequenceAggregationLogicalFunction.cpp,                        *)
(* TemporalAggregationSerde.cpp, FunctionSerializationUtil.cpp).           *)
(***************************************************************************)
FieldNames == { "x", "y", "t" }

\* A field access function, and a function that is none.
FieldAccessLogicalFunction(fieldName) == [ function_type |-> "FieldAccess", fieldName |-> fieldName ]
ConstantValueLogicalFunction == [ function_type |-> "ConstantValue" ]

\* The aggregations: lon, lat, timestamp and alias fields.
Aggregations ==
    { [ lonField |-> FieldAccessLogicalFunction(lon), latField |-> FieldAccessLogicalFunction(lat),
        timestampField |-> FieldAccessLogicalFunction(ts), asField |-> FieldAccessLogicalFunction(as) ] :
         lon \in FieldNames, lat \in FieldNames, ts \in FieldNames, as \in FieldNames }

\* The values of a configuration of a SerializableFunction.
StringValue(str) == [ has_function_list |-> FALSE, string |-> str ]
FunctionListValue(functions) == [ has_function_list |-> TRUE, function_list |-> functions ]

\* LogicalFunction::serialize: the SerializableFunction of a function.
serializeFunction(function) ==
    IF function.function_type = "FieldAccess"
    THEN [ function_type |-> "FieldAccess", config |-> ("FieldName" :> StringValue(function.fieldName)) ]
    ELSE [ function_type |-> function.function_type, config |-> <<>> ]

\* deserializeFunction, FunctionSerializationUtil.cpp lines 30-58.
deserializeFunction(serialized) ==
    IF serialized.function_type = "FieldAccess"
    THEN FieldAccessLogicalFunction(serialized.config["FieldName"].string)
    ELSE [ function_type |-> serialized.function_type ]

\* tryGet<FieldAccessLogicalFunction>.
isFieldAccess(function) == function.function_type = "FieldAccess"

\* TemporalSequenceAggregationLogicalFunction::serialize, lines 91-113: lon
\* as on_field, the alias as as_field, lat and timestamp as the repeated
\* extra_fields of the message.
serialize(function) ==
    [ type |-> "TemporalSequence",
      on_field |-> serializeFunction(function.lonField),
      as_field |-> serializeFunction(function.asField),
      extra_fields |-> << serializeFunction(function.latField), serializeFunction(function.timestampField) >> ]

\* TemporalAggregationSerde.hpp line 25.
TEMPORAL_SEQUENCE_EXTRA_FIELDS_KEY == "TemporalSequence.extra_fields"

\* serializeTemporalSequence, TemporalAggregationSerde.cpp lines 24-53: lat
\* and timestamp as a function list in the configuration of on_field.
serializeTemporalSequence(lon, lat, ts, asField) ==
    LET lonProto == serializeFunction(lon)
        extraList == << serializeFunction(lat), serializeFunction(ts) >>
    IN  [ type |-> "TemporalSequence",
          on_field |-> [ lonProto EXCEPT !.config =
                            (TEMPORAL_SEQUENCE_EXTRA_FIELDS_KEY :> FunctionListValue(extraList)) @@ @ ],
          as_field |-> serializeFunction(asField),
          extra_fields |-> <<>> ]

\* The outcomes of the deserializer.
Thrown(exception) == [ thrown |-> exception ]
Returned_(function) == [ thrown |-> "none", function |-> function ]

\* RegisterTemporalSequenceAggregationLogicalFunction, lines 115-128, and the
\* registry's answer for the other aggregation of the model.
createAggregation(type, fields) ==
    IF type = "TemporalSequence"
    THEN [ lonField |-> fields[1], latField |-> fields[2],
           timestampField |-> fields[3], asField |-> fields[4] ]
    ELSE [ type |-> type, onField |-> fields[1], asField |-> fields[2] ]

\* The key under which the deserializer looks for lat and timestamp,
\* FunctionSerializationUtil.cpp line 78.
extraInputsKey == "temporal_sequence_inputs"

\* deserializeWindowAggregationFunction, FunctionSerializationUtil.cpp
\* lines 60-111.
deserializeWindowAggregationFunction(serialized) ==
    LET type == serialized.type
        onField == deserializeFunction(serialized.on_field)
        asField == deserializeFunction(serialized.as_field)
        onFieldConfig == serialized.on_field.config
    IN  IF ~(isFieldAccess(onField) /\ isFieldAccess(asField))
        THEN Thrown("UnknownLogicalOperator")
        ELSE IF type = "TemporalSequence"
        THEN IF extraInputsKey \notin DOMAIN onFieldConfig
             THEN Thrown("UnknownLogicalOperator")
             ELSE IF ~onFieldConfig[extraInputsKey].has_function_list
             THEN Thrown("UnknownLogicalOperator")
             ELSE LET fnList == onFieldConfig[extraInputsKey].function_list
                  IN  IF Len(fnList) # 2
                      THEN Thrown("UnknownLogicalOperator")
                      ELSE LET latFn == deserializeFunction(fnList[1])
                               tsFn == deserializeFunction(fnList[2])
                           IN  IF ~isFieldAccess(latFn) \/ ~isFieldAccess(tsFn)
                               THEN Thrown("UnknownLogicalOperator")
                               ELSE Returned_(createAggregation(type, << onField, latFn, tsFn, asField >>))
        ELSE Returned_(createAggregation(type, << onField, asField >>))

\* Messages of other producers: the lists a configuration can hold under the
\* deserializer's key, and the messages built around them.
ReceivedLists ==
    { <<>>, << serializeFunction(FieldAccessLogicalFunction("y")) >>,
      << serializeFunction(FieldAccessLogicalFunction("y")), serializeFunction(FieldAccessLogicalFunction("t")) >>,
      << serializeFunction(FieldAccessLogicalFunction("y")), serializeFunction(ConstantValueLogicalFunction) >> }
ReceivedConfigs ==
    { <<>>, "temporal_sequence_inputs" :> StringValue("y") }
       \cup { "temporal_sequence_inputs" :> FunctionListValue(l) : l \in ReceivedLists }
ReceivedMessages ==
    { [ type |-> type,
        on_field |-> [ serializeFunction(on) EXCEPT !.config = config @@ @ ],
        as_field |-> serializeFunction(FieldAccessLogicalFunction("x")),
        extra_fields |-> <<>> ] :
         type \in { "TemporalSequence", "Sum" },
         on \in { FieldAccessLogicalFunction("x"), ConstantValueLogicalFunction },
         config \in ReceivedConfigs }

outsideSerde == << loweringVars, parserVars, mqttVars, traitVars, meosVars, epochVars >>

InitSerde ==
    /\ LoweringAndParserUnused
    /\ MQTTSinkIdle
    /\ TraitIdle
    /\ MeosIdle
    /\ EpochIdle
    /\ aggregation \in Aggregations
    /\ serializedFunction = <<>>
    /\ deserialized = <<>>
    /\ serdeStatus = "built"

\* The aggregation is serialized by its own serialize().
serializeAggregation ==
    /\ serdeStatus = "built"
    /\ serializedFunction' = serialize(aggregation)
    /\ serdeStatus' = "serialized"
    /\ UNCHANGED << aggregation, deserialized, outsideSerde >>

\* The aggregation is serialized by serializeTemporalSequence
\* (TemporalSequenceAggregationLogicalFunctionV2::serialize, lines 98-101).
serializeAggregationV2 ==
    /\ serdeStatus = "built"
    /\ serializedFunction' = serializeTemporalSequence(aggregation.lonField, aggregation.latField,
                                                      aggregation.timestampField, aggregation.asField)
    /\ serdeStatus' = "serialized"
    /\ UNCHANGED << aggregation, deserialized, outsideSerde >>

\* A message of another producer arrives.
receive ==
    /\ serdeStatus = "built"
    /\ serializedFunction' \in ReceivedMessages
    /\ serdeStatus' = "received"
    /\ UNCHANGED << aggregation, deserialized, outsideSerde >>

\* The deserializer returns an aggregation.
deserializeReturns ==
    /\ serdeStatus \in { "serialized", "received" }
    /\ deserialized = <<>>
    /\ deserializeWindowAggregationFunction(serializedFunction).thrown = "none"
    /\ deserialized' = deserializeWindowAggregationFunction(serializedFunction)
    /\ UNCHANGED << aggregation, serializedFunction, serdeStatus, outsideSerde >>

\* The deserializer throws.
deserializeThrows ==
    /\ serdeStatus \in { "serialized", "received" }
    /\ deserialized = <<>>
    /\ deserializeWindowAggregationFunction(serializedFunction).thrown # "none"
    /\ deserialized' = deserializeWindowAggregationFunction(serializedFunction)
    /\ UNCHANGED << aggregation, serializedFunction, serdeStatus, outsideSerde >>

NextSerde ==
    \/ serializeAggregation
    \/ serializeAggregationV2
    \/ receive
    \/ deserializeReturns
    \/ deserializeThrows

SpecSerde == InitSerde /\ [][NextSerde]_vars

(***************************************************************************)
(* OutputOriginIdsTrait (OutputOriginIdsTrait.cpp).  A string is the       *)
(* sequence of its characters.                                             *)
(***************************************************************************)
MaxOriginIds == 3

\* Raw values of origin ids: one, two and three decimal digits.
RawValues == { 0, 1, 7, 10, 12, 101 }

RECURSIVE OriginIdLists(_)
OriginIdLists(n) ==
    IF n = 0
    THEN { <<>> }
    ELSE LET shorter == OriginIdLists(n - 1)
         IN  shorter \cup { Append(l, id) : l \in { k \in shorter : Len(k) = n - 1 }, id \in RawValues }

DigitChars == << "0", "1", "2", "3", "4", "5", "6", "7", "8", "9" >>

\* std::to_string of an unsigned value.
RECURSIVE to_string(_)
to_string(n) ==
    IF n < 10
    THEN << DigitChars[n + 1] >>
    ELSE to_string(n \div 10) \o << DigitChars[(n % 10) + 1] >>

isDigit(c) == \E d \in 1..10 : DigitChars[d] = c
digitValue(c) == (CHOOSE d \in 1..10 : DigitChars[d] = c) - 1

\* Util::from_chars<uint64_t>: the value of a token of decimal digits,
\* nothing for another token.
RECURSIVE digitsValue(_)
digitsValue(token) ==
    IF token = <<>>
    THEN 0
    ELSE digitsValue(SubSeq(token, 1, Len(token) - 1)) * 10 + digitValue(token[Len(token)])
from_chars(token) ==
    IF token # <<>> /\ \A k \in 1..Len(token) : isDigit(token[k])
    THEN optional(digitsValue(token))
    ELSE nullopt

\* Line 59: the character between two encoded ids.
separator_semicolon == ";"
separator == ","

\* Lines 57-61: the ids in decimal, separated by commas.
RECURSIVE encodeFrom(_, _)
encodeFrom(ids, i) ==
    IF i > Len(ids)
    THEN <<>>
    ELSE (IF i > 1 THEN << separator >> ELSE <<>>) \o to_string(ids[i]) \o encodeFrom(ids, i + 1)

\* A string value and a value of another type of a configuration.
StringVariant(str) == [ holds_string |-> TRUE, string |-> str ]
IntegerVariant(n) == [ holds_string |-> FALSE, integer |-> n ]

\* serialize, lines 51-65.
serializeOutputOriginIds(ids) == "outputOriginIds" :> StringVariant(encodeFrom(ids, 1))

\* std::string::find(',', startPos): the 0-based position of the first comma at
\* or after startPos, npos (-1) when there is none.
npos == -1
find(encoded, startPos) ==
    LET positions == { p \in startPos..(Len(encoded) - 1) : encoded[p + 1] = "," }
    IN  IF positions = {} THEN npos ELSE CHOOSE p \in positions : \A q \in positions : p <= q

\* Lines 133-144: the tokens between the commas; a token that is empty or
\* does not parse adds no id.
RECURSIVE decodeFrom(_, _, _)
decodeFrom(encoded, startPos, originIdList) ==
    IF ~(startPos <= Len(encoded))
    THEN originIdList
    ELSE LET pos == find(encoded, startPos)
             token == IF pos = npos
                      THEN SubSeq(encoded, startPos + 1, Len(encoded))
                      ELSE SubSeq(encoded, startPos + 1, pos)
             parsed == from_chars(token)
             list == IF token # <<>> /\ parsed.has_value
                     THEN Append(originIdList, parsed.value)
                     ELSE originIdList
         IN  IF pos = npos THEN list ELSE decodeFrom(encoded, pos + 1, list)

\* RegisterOutputOriginIdsTrait, lines 119-146.
RegisterOutputOriginIdsTrait(config) ==
    IF "outputOriginIds" \notin DOMAIN config
    THEN Thrown("CannotDeserialize")
    ELSE IF ~config["outputOriginIds"].holds_string
    THEN Thrown("CannotDeserialize")
    ELSE [ thrown |-> "none", originIds |-> decodeFrom(config["outputOriginIds"].string, 0, <<>>) ]

\* Configurations of other producers.
ReceivedTraitConfigs ==
    { <<>>,
      "other" :> StringVariant(<< "1" >>),
      "outputOriginIds" :> IntegerVariant(1),
      "outputOriginIds" :> StringVariant(<< "1", ",", ",", "2" >>),
      "outputOriginIds" :> StringVariant(<< ",", "1", "x", ",", "2", "," >>) }

outsideTrait == << loweringVars, parserVars, mqttVars, serdeVars, meosVars, epochVars >>

InitTrait ==
    /\ LoweringAndParserUnused
    /\ MQTTSinkIdle
    /\ SerdeIdle
    /\ MeosIdle
    /\ EpochIdle
    /\ originIds \in OriginIdLists(MaxOriginIds)
    /\ traitConfig = <<>>
    /\ registered = <<>>
    /\ traitStatus = "built"

serializeTrait ==
    /\ traitStatus = "built"
    /\ traitConfig' = serializeOutputOriginIds(originIds)
    /\ traitStatus' = "serialized"
    /\ UNCHANGED << originIds, registered, outsideTrait >>

receiveTraitConfig ==
    /\ traitStatus = "built"
    /\ traitConfig' \in ReceivedTraitConfigs
    /\ traitStatus' = "received"
    /\ UNCHANGED << originIds, registered, outsideTrait >>

registerReturns ==
    /\ traitStatus \in { "serialized", "received" }
    /\ registered = <<>>
    /\ RegisterOutputOriginIdsTrait(traitConfig).thrown = "none"
    /\ registered' = RegisterOutputOriginIdsTrait(traitConfig)
    /\ UNCHANGED << originIds, traitConfig, traitStatus, outsideTrait >>

registerThrows ==
    /\ traitStatus \in { "serialized", "received" }
    /\ registered = <<>>
    /\ RegisterOutputOriginIdsTrait(traitConfig).thrown # "none"
    /\ registered' = RegisterOutputOriginIdsTrait(traitConfig)
    /\ UNCHANGED << originIds, traitConfig, traitStatus, outsideTrait >>

NextTrait ==
    \/ serializeTrait
    \/ receiveTraitConfig
    \/ registerReturns
    \/ registerThrows

SpecTrait == InitTrait /\ [][NextTrait]_vars

(***************************************************************************)
(* The initialization of MEOS (MEOSWrapper.cpp lines 34-81 and 385-387).   *)
(***************************************************************************)
NumThreads == 3
MaxCalls == 2

Threads == 1..NumThreads

outsideMeos == << loweringVars, parserVars, mqttVars, serdeVars, traitVars, epochVars >>

InitMeos ==
    /\ LoweringAndParserUnused
    /\ MQTTSinkIdle
    /\ SerdeIdle
    /\ TraitIdle
    /\ EpochIdle
    /\ meos_initialized = FALSE
    /\ meos_init_mutex = 0
    /\ pc = [ t \in Threads |-> "outside" ]
    /\ returns = [ t \in Threads |-> 0 ]
    /\ initializeBegun = 0
    /\ initializeEnded = 0
    /\ atexitRegistered = 0

\* A thread calls Meos::ensureMeosInitialized, lines 385-387.
callEnsure(t) ==
    /\ pc[t] = "outside"
    /\ returns[t] < MaxCalls
    /\ pc' = [ pc EXCEPT ![t] = "lock" ]
    /\ UNCHANGED << meos_initialized, meos_init_mutex, returns, initializeBegun, initializeEnded,
                    atexitRegistered, outsideMeos >>

\* Line 48: the mutex can be taken.
mayLock_unguarded(t) == TRUE
mayLock(t) == meos_init_mutex = 0

\* Line 48: the lock_guard takes the mutex.
lock(t) ==
    /\ pc[t] = "lock"
    /\ mayLock(t)
    /\ meos_init_mutex' = t
    /\ pc' = [ pc EXCEPT ![t] = "check" ]
    /\ UNCHANGED << meos_initialized, returns, initializeBegun, initializeEnded, atexitRegistered,
                    outsideMeos >>

\* Line 49: the flag is read.
check(t) ==
    /\ pc[t] = "check"
    /\ pc' = [ pc EXCEPT ![t] = IF ~meos_initialized THEN "initialize" ELSE "unlock" ]
    /\ UNCHANGED << meos_initialized, meos_init_mutex, returns, initializeBegun, initializeEnded,
                    atexitRegistered, outsideMeos >>

\* Lines 50-76: the environment is prepared and meos_initialize is entered.
initializeBegin(t) ==
    /\ pc[t] = "initialize"
    /\ initializeBegun' = initializeBegun + 1
    /\ pc' = [ pc EXCEPT ![t] = "initializing" ]
    /\ UNCHANGED << meos_initialized, meos_init_mutex, returns, initializeEnded, atexitRegistered,
                    outsideMeos >>

\* Lines 76-77: meos_initialize returns and the flag is set.
initializeEnd(t) ==
    /\ pc[t] = "initializing"
    /\ initializeEnded' = initializeEnded + 1
    /\ meos_initialized' = TRUE
    /\ pc' = [ pc EXCEPT ![t] = "atexit" ]
    /\ UNCHANGED << meos_init_mutex, returns, initializeBegun, atexitRegistered, outsideMeos >>

\* Line 79: the cleanup is registered.
registerCleanup(t) ==
    /\ pc[t] = "atexit"
    /\ atexitRegistered' = atexitRegistered + 1
    /\ pc' = [ pc EXCEPT ![t] = "unlock" ]
    /\ UNCHANGED << meos_initialized, meos_init_mutex, returns, initializeBegun, initializeEnded,
                    outsideMeos >>

\* Line 81: the lock_guard releases the mutex and the call returns.
unlock(t) ==
    /\ pc[t] = "unlock"
    /\ meos_init_mutex' = 0
    /\ returns' = [ returns EXCEPT ![t] = @ + 1 ]
    /\ pc' = [ pc EXCEPT ![t] = "outside" ]
    /\ UNCHANGED << meos_initialized, initializeBegun, initializeEnded, atexitRegistered, outsideMeos >>

NextMeos ==
    \E t \in Threads :
       \/ callEnsure(t)
       \/ lock(t)
       \/ check(t)
       \/ initializeBegin(t)
       \/ initializeEnd(t)
       \/ registerCleanup(t)
       \/ unlock(t)

SpecMeos == InitMeos /\ [][NextMeos]_vars

(***************************************************************************)
(* Meos::convertEpochToTimestamp (MEOSWrapper.cpp lines 111-134).  An      *)
(* unsigned 64-bit value is written with three digits in base 10^6:        *)
(* << a, b, c >> is a * 10^12 + b * 10^6 + c.                              *)
(***************************************************************************)
Million == 1000000

\* 2^64 - 1 and 2^63.
ULLONG_MAX == << 18446744, 73709, 551615 >>
LLONG_LIMIT == << 9223372, 36854, 775808 >>

Less(x, y) ==
    \/ x[1] < y[1]
    \/ x[1] = y[1] /\ x[2] < y[2]
    \/ x[1] = y[1] /\ x[2] = y[2] /\ x[3] < y[3]

\* The unsigned divisions of lines 116, 118 and 120.
dividedByThousand(x) ==
    << x[1] \div 1000,
       (x[1] % 1000) * 1000 + (x[2] \div 1000),
       (x[2] % 1000) * 1000 + (x[3] \div 1000) >>
dividedByMillion(x) == << 0, x[1], x[2] >>
dividedByBillion(x) == dividedByThousand(dividedByMillion(x))

\* The arguments: values around the thresholds, around the largest
\* timestamp and around the largest unsigned value.
EpochValues ==
    { x \in { << a, b, c >> :
                 a \in { 0, 1, 4, 999, 1000, 999999, Million, 18446744 },
                 b \in { 0, 1, 4102, 4103, 73709, 102444, 999999 },
                 c \in { 0, 1, 444800, 444801, 551615, 551616, 800999, 801000, 999999 } } :
         ~Less(ULLONG_MAX, x) }

\* Lines 115, 117 and 119: the least values taken as nanoseconds, as
\* microseconds and as milliseconds.
nanosecondsFrom == << Million, 0, 0 >>
microsecondsFrom == << 1000, 0, 0 >>
millisecondsFrom_tenTrillion == << 10, 0, 0 >>
millisecondsFrom == << 1, 0, 0 >>

\* Line 128.
kMaxReasonable == << 0, 4102, 444800 >>

\* static_cast<long long>, line 133.
toLongLong(x) ==
    IF Less(x, LLONG_LIMIT)
    THEN [ negative |-> FALSE, magnitude |-> x ]
    ELSE [ negative |-> TRUE ]

\* Lines 114-133: the seconds given to convertSecondsToTimestamp.
convertEpochToTimestamp(value) ==
    LET secondsUll ==
           IF ~Less(value, nanosecondsFrom) THEN dividedByBillion(value)
           ELSE IF ~Less(value, microsecondsFrom) THEN dividedByMillion(value)
           ELSE IF ~Less(value, millisecondsFrom) THEN dividedByThousand(value)
           ELSE value
        clamped == IF Less(kMaxReasonable, secondsUll) THEN kMaxReasonable ELSE secondsUll
    IN  toLongLong(clamped)

outsideEpoch == << loweringVars, parserVars, mqttVars, serdeVars, traitVars, meosVars >>

InitEpoch ==
    /\ LoweringAndParserUnused
    /\ MQTTSinkIdle
    /\ SerdeIdle
    /\ TraitIdle
    /\ MeosIdle
    /\ epochLike \in EpochValues
    /\ secondsArgument = <<>>
    /\ epochStatus = "called"

convertEpoch ==
    /\ epochStatus = "called"
    /\ secondsArgument' = convertEpochToTimestamp(epochLike)
    /\ epochStatus' = "converted"
    /\ UNCHANGED << epochLike, outsideEpoch >>

NextEpoch == convertEpoch

SpecEpoch == InitEpoch /\ [][NextEpoch]_vars

(***************************************************************************)
(* Vocabulary of the properties.                                           *)
(***************************************************************************)
Returned == status = "returned"
\* The parser type of the source is "raw" in some letter casing.
RawParser(s) ==
    LET t == pipelineQueryPlan.parserType[s]
    IN  /\ Len(t) = 3
        /\ t[1] \in {"r", "R"}
        /\ t[2] \in {"a", "A"}
        /\ t[3] \in {"w", "W"}
Running == status = "running"
LogicalSuccessors(n) == pipelineQueryPlan.successors[n]
\* The pipelines of the plan that list x as a successor.
Predecessors(x) == { n \in PipelineIds : x \in Range(LogicalSuccessors(n)) }
\* The returned ExecutablePipelines that carry the id.
WithId(id) == { a \in compiledPlan.pipelines : heap[a].id = id }
\* Every ExecutablePipeline the pass created with the id.
CreatedWithId(id) == { a \in 1..Len(heap) : heap[a].id = id }
RecordsOfSource(s) ==
    { k \in 1..Len(compiledPlan.sources) : compiledPlan.sources[k].originId = pipelineQueryPlan.originId[s] }
RecordsOfSink(snk, id) == { k \in 1..Len(snk) : snk[k].id = id }
IsPrefix(a, b) == Len(a) <= Len(b) /\ SubSeq(b, 1, Len(a)) = a
\* The predecessors processSuccessor handed to processSink for the sink, in
\* the order of the calls.
RECURSIVE ArrivalsAt(_, _)
ArrivalsAt(log, id) ==
    IF log = <<>>
    THEN <<>>
    ELSE LET rest == ArrivalsAt(SubSeq(log, 1, Len(log) - 1), id)
             last == log[Len(log)]
         IN  IF last.sink = id THEN Append(rest, last.predecessor) ELSE rest
Occurrences(seq, x) == Cardinality({ k \in 1..Len(seq) : seq[k] = x })

(***************************************************************************)
(* C1.  Idempotent memoization: when an operator pipeline X is a successor *)
(* of two or more pipelines of the plan, the returned plan holds exactly   *)
(* one ExecutablePipeline with the id of X, every reference to a pipeline  *)
(* with that id anywhere in the output is that one object, and the         *)
(* successor list of every lowered predecessor (operator pipeline,         *)
(* formatter pipeline, or the source record of a raw source) contains it.  *)
(***************************************************************************)
C1_RefersOnlyTo(list, x, a) == \A k \in 1..Len(list) : heap[list[k]].id = x => list[k] = a

C1_IdempotentMemoization ==
    Returned =>
      \A x \in OperatorIds :
        Cardinality(Predecessors(x)) >= 2 =>
          \E a \in WithId(x) :
            /\ WithId(x) = {a}
            /\ \A b \in 1..Len(heap) : C1_RefersOnlyTo(heap[b].successors, x, a)
            /\ \A k \in 1..Len(compiledPlan.sources) :
                  C1_RefersOnlyTo(compiledPlan.sources[k].successors, x, a)
            /\ \A n \in Predecessors(x) :
                  /\ \A b \in CreatedWithId(n) : a \in Range(heap[b].successors)
                  /\ isOperatorPipeline(n) => WithId(n) # {}
                  /\ isSourcePipeline(n) =>
                        \E k \in RecordsOfSource(n) :
                           LET list == compiledPlan.sources[k].successors
                           IN  \/ a \in Range(list)
                               \/ \E j \in 1..Len(list) :
                                     heap[list[j]].id = n /\ a \in Range(heap[list[j]].successors)

\* A plan is lowered in which operator 4 is a successor of both sources and
\* of operator 3.
C1_Witness == Returned /\ Predecessors(4) = {1, 2, 3}

(***************************************************************************)
(* C3.  Sink fan-in: when two distinct operator pipelines A and B both     *)
(* have the sink K as their only successor, the returned plan has exactly  *)
(* one sink record for K, its predecessor list is the list of arrivals at  *)
(* K in the order of the walk, the lowered A and the lowered B occur in it *)
(* once each, and it has length 2 when K has no other predecessor.         *)
(***************************************************************************)
C3_SinkFanIn ==
    Returned =>
      \A sk \in SinkIds : \A a, b \in OperatorIds :
        ( /\ a # b
          /\ LogicalSuccessors(a) = <<sk>>
          /\ LogicalSuccessors(b) = <<sk>> ) =>
            /\ Cardinality(RecordsOfSink(compiledPlan.sinks, sk)) = 1
            /\ \A k \in RecordsOfSink(compiledPlan.sinks, sk) :
                  LET preds == compiledPlan.sinks[k].predecessor
                  IN  /\ preds = ArrivalsAt(arrivals, sk)
                      /\ \A n \in {a, b} :
                            \E e \in WithId(n) :
                               /\ WithId(n) = {e}
                               /\ Occurrences(preds, [kind |-> "ExecutablePipeline", ref |-> e]) = 1
                      /\ Predecessors(sk) = {a, b} => Len(preds) = 2

\* Operators 3 and 4 are both lowered, both have sink 5 as their only
\* successor and are its only predecessors; 3 arrived first.
C3_Witness ==
    /\ Returned
    /\ LogicalSuccessors(3) = <<5>>
    /\ LogicalSuccessors(4) = <<5>>
    /\ Predecessors(5) = {3, 4}
    /\ \E k \in 1..Len(compiledPlan.sinks) :
          /\ compiledPlan.sinks[k].id = 5
          /\ Len(compiledPlan.sinks[k].predecessor) = 2
          /\ heap[compiledPlan.sinks[k].predecessor[1].ref].id = 3
          /\ heap[compiledPlan.sinks[k].predecessor[2].ref].id = 4

(***************************************************************************)
(* C4.  During the pass the sink list holds at most one record per sink    *)
(* id; a step never removes, replaces or reorders a record or a            *)
(* predecessor entry; an arrival at a sink appends exactly one             *)
(* predecessor, the arriving one, to the record of that sink, and no other *)
(* step changes the list.                                                  *)
(***************************************************************************)
C4_Arrival == InLoop /\ isSinkPipeline(NextSuccessor)
C4_TotalPredecessors(snk) ==
    Cardinality({ kj \in (1..Len(snk)) \X (1..(Len(arrivals) + 1)) :
                     kj[2] <= Len(snk[kj[1]].predecessor) })

C4_StepOK ==
    Running' =>
      /\ \A j, k \in 1..Len(sinks') : sinks'[j].id = sinks'[k].id => j = k
      /\ Len(sinks) <= Len(sinks')
      /\ \A k \in 1..Len(sinks) :
            /\ sinks'[k].id = sinks[k].id
            /\ sinks'[k].descriptor = sinks[k].descriptor
            /\ IsPrefix(sinks[k].predecessor, sinks'[k].predecessor)
      /\ IF C4_Arrival
         THEN /\ C4_TotalPredecessors(sinks') = C4_TotalPredecessors(sinks) + 1
              /\ \E k \in 1..Len(sinks') :
                    /\ sinks'[k].id = NextSuccessor
                    /\ sinks'[k].predecessor # <<>>
                    /\ sinks'[k].predecessor[Len(sinks'[k].predecessor)] = PredecessorOf(Top)
         ELSE sinks' = sinks

C4_OneRecordPerSinkAppendOnly == [][C4_StepOK]_vars

\* The pass is under way with records for both sinks, one of them with two
\* predecessors.
C4_Witness ==
    /\ Running
    /\ Len(sinks) = 2
    /\ \E k \in 1..Len(sinks) : Len(sinks[k].predecessor) >= 2

(***************************************************************************)
(* C5.  Terminal classification: in the returned plan no successor list of *)
(* an ExecutablePipeline and no successor list of a source record has an   *)
(* entry for a sink pipeline.                                              *)
(***************************************************************************)
C5_NoSinkEntry(list) == \A k \in 1..Len(list) : ~isSinkPipeline(heap[list[k]].id)

C5_TerminalClassification ==
    Returned =>
      /\ \A a \in 1..Len(heap) : C5_NoSinkEntry(heap[a].successors)
      /\ \A k \in 1..Len(compiledPlan.sources) : C5_NoSinkEntry(compiledPlan.sources[k].successors)
      /\ \A a \in compiledPlan.pipelines : ~isSinkPipeline(heap[a].id)

\* A plan is lowered in which a sink follows a source directly and follows
\* an operator.
C5_Witness ==
    /\ Returned
    /\ \E s \in SourceIds, o \in OperatorIds, sk \in SinkIds :
          /\ sk \in Range(LogicalSuccessors(s))
          /\ sk \in Range(LogicalSuccessors(o))
          /\ WithId(o) # {}
          /\ RecordsOfSink(compiledPlan.sinks, sk) # {}

(***************************************************************************)
(* The lowered successors of a logical successor list: the returned        *)
(* ExecutablePipelines of its operator pipelines, in the order of the      *)
(* list, sinks left out.                                                   *)
(***************************************************************************)
RECURSIVE Lowered(_)
Lowered(list) ==
    IF list = <<>>
    THEN <<>>
    ELSE LET head == list[1]
             rest == Lowered(SubSeq(list, 2, Len(list)))
         IN  IF isSinkPipeline(head)
             THEN rest
             ELSE << CHOOSE a \in WithId(head) : TRUE >> \o rest
BuiltOnce(list) ==
    \A k \in 1..Len(list) : ~isSinkPipeline(list[k]) => Cardinality(WithId(list[k])) = 1
IsFormatterOf(a, s) ==
    /\ heap[a].id = s
    /\ heap[a].stage = InputFormatterTask(s)

(***************************************************************************)
(* C2.  End-to-end scenario: source 1 (csv) -> operator 3 -> sink 5 and    *)
(* source 2 (raw) -> operator 3 yields two source records, one formatter   *)
(* pipeline (of source 1), one ExecutablePipeline of operator 3 that is    *)
(* the successor of the formatter and of the record of source 2, and one   *)
(* sink record of sink 5 with the one predecessor operator 3.              *)
(***************************************************************************)
C2_Scenario ==
    /\ LogicalSuccessors(1) = <<3>>
    /\ LogicalSuccessors(2) = <<3>>
    /\ LogicalSuccessors(3) = <<5>>
    /\ LogicalSuccessors(4) = <<>>
    /\ pipelineQueryPlan.parserType[1] = <<"c", "s", "v">>
    /\ pipelineQueryPlan.parserType[2] = <<"r", "a", "w">>

C2_EndToEnd ==
    (Returned /\ C2_Scenario) =>
      /\ Len(compiledPlan.sources) = 2
      /\ Cardinality(compiledPlan.pipelines) = 2
      /\ \E f, a \in compiledPlan.pipelines :
            /\ IsFormatterOf(f, 1)
            /\ heap[a].id = 3
            /\ heap[f].successors = <<a>>
            /\ compiledPlan.sources[1].successors = <<f>>
            /\ compiledPlan.sources[2].successors = <<a>>
            /\ Len(compiledPlan.sinks) = 1
            /\ compiledPlan.sinks[1].id = 5
            /\ compiledPlan.sinks[1].predecessor = << [kind |-> "ExecutablePipeline", ref |-> a] >>

(***************************************************************************)
(* C6.  Raw bypass: for a source whose parser type is raw in any casing no *)
(* ExecutablePipeline with the id of the source pipeline enters the memo   *)
(* map or the returned pipeline list, and the successor list of its source *)
(* record is the list of the lowered successors of the source.             *)
(***************************************************************************)
C6_RawBypass ==
    \A s \in SourceIds :
      RawParser(s) =>
        /\ \A k \in DOMAIN pipelineToExecutableMap : heap[pipelineToExecutableMap[k]].id # s
        /\ Returned =>
             /\ WithId(s) = {}
             /\ BuiltOnce(LogicalSuccessors(s))
             /\ \A k \in RecordsOfSource(s) :
                   compiledPlan.sources[k].successors = Lowered(LogicalSuccessors(s))

(***************************************************************************)
(* C7.  Non-raw injection: for a source whose parser type is not raw, the  *)
(* successor list of a source record of the source has exactly one         *)
(* element, a formatter pipeline with the id and the origin id of the      *)
(* source, and the successor list of that formatter is the list of the     *)
(* lowered successors of the source.                                       *)
(***************************************************************************)
C7_NonRawInjection ==
    Returned =>
      \A s \in SourceIds :
        ~RawParser(s) =>
          /\ RecordsOfSource(s) # {}
          /\ BuiltOnce(LogicalSuccessors(s))
          /\ \A k \in RecordsOfSource(s) :
                LET list == compiledPlan.sources[k].successors
                IN  /\ Len(list) = 1
                    /\ IsFormatterOf(list[1], s)
                    /\ heap[list[1]].successors = Lowered(LogicalSuccessors(s))

\* A csv source with an operator, a sink and the operator again as its
\* successors is lowered.
C7_Witness ==
    /\ Returned
    /\ pipelineQueryPlan.parserType[1] = <<"c", "s", "v">>
    /\ LogicalSuccessors(1) = <<3, 5, 3>>
    /\ \E k \in RecordsOfSource(1) : Len(heap[compiledPlan.sources[k].successors[1]].successors) = 2

(***************************************************************************)
(* C8.  A memo hit leaves everything unchanged: when the walk meets an     *)
(* operator pipeline whose id is in the memo map, the step creates no      *)
(* ExecutablePipeline, enters no call, and leaves the memo map, the sink   *)
(* records, the source records and every successor list as they were; the  *)
(* only effect is the caller appending the stored instance to the list it  *)
(* is building.                                                            *)
(***************************************************************************)
C8_MemoHit ==
    /\ InLoop
    /\ isOperatorPipeline(NextSuccessor)
    /\ NextSuccessor \in DOMAIN pipelineToExecutableMap

C8_StepOK ==
    C8_MemoHit =>
      LET stored == pipelineToExecutableMap[NextSuccessor]
          callee == Top
      IN  /\ pipelineToExecutableMap' = pipelineToExecutableMap
          /\ sinks' = sinks
          /\ sources' = sources
          /\ arrivals' = arrivals
          /\ nextPipelineId' = nextPipelineId
          /\ Len(heap') = Len(heap)
          /\ Len(stack') = Len(stack)
          /\ SubSeq(stack', 1, Len(stack) - 1) = SubSeq(stack, 1, Len(stack) - 1)
          /\ stack'[Len(stack)].i = callee.i + 1
          /\ \A a \in 1..Len(heap) : a # callee.self => heap'[a] = heap[a]
          /\ IF callee.fn = "injectFormatter"
             THEN /\ heap' = heap
                  /\ stack'[Len(stack)].list = Append(callee.list, stored)
             ELSE /\ heap'[callee.self] =
                        [heap[callee.self] EXCEPT !.successors = Append(@, stored)]
                  /\ stack'[Len(stack)].list = callee.list

C8_MemoHitChangesNothing == [][C8_StepOK]_vars

\* A memo hit has happened on a pipeline that has successors of its own:
\* two ExecutablePipelines list the same instance, which was not walked a
\* second time (its sink has one arrival from it).
C8_Witness ==
    /\ Running
    /\ \E b1, b2, a \in 1..Len(heap) :
          /\ b1 # b2
          /\ a \in Range(heap[b1].successors)
          /\ a \in Range(heap[b2].successors)
          /\ heap[a].successors # <<>>
          /\ \E sk \in SinkIds :
                Occurrences(ArrivalsAt(arrivals, sk), [kind |-> "ExecutablePipeline", ref |-> a]) = 1

(***************************************************************************)
(* C9.  The formatter pipeline injected for a non-raw source carries the   *)
(* id of the source pipeline and is stored in the memo map under that id;  *)
(* once the source is processed a lookup by the id of the source pipeline  *)
(* returns the formatter pipeline.                                         *)
(***************************************************************************)
C9_SourceProcessed(s) ==
    /\ Running
    /\ Top.fn = "apply"
    /\ \E k \in 1..Len(sources) : sources[k].originId = pipelineQueryPlan.originId[s]

C9_FormatterKeyedBySourceId ==
    /\ \A k \in DOMAIN pipelineToExecutableMap :
          LET a == pipelineToExecutableMap[k]
          IN  (\E s \in SourceIds : ~RawParser(s) /\ IsFormatterOf(a, s)) => heap[a].id = k
    /\ \A s \in SourceIds :
          (~RawParser(s) /\ C9_SourceProcessed(s)) =>
             /\ s \in DOMAIN pipelineToExecutableMap
             /\ IsFormatterOf(pipelineToExecutableMap[s], s)

(***************************************************************************)
(* C10.  The pipeline list of the returned plan holds one                  *)
(* ExecutablePipeline for each operator pipeline reachable from a source,  *)
(* one formatter pipeline for each source whose parser type is not raw,    *)
(* and nothing else: no sink, no raw source, no id twice.                  *)
(***************************************************************************)
C10_Expected(p) ==
    \/ isOperatorPipeline(p) /\ p \in Reachable(pipelineQueryPlan.successors)
    \/ isSourcePipeline(p) /\ ~RawParser(p)

C10_PipelineList ==
    Returned =>
      \A p \in PipelineIds :
        /\ Cardinality(WithId(p)) = IF C10_Expected(p) THEN 1 ELSE 0
        /\ \A a \in WithId(p) :
              IF isSourcePipeline(p)
              THEN heap[a].stage = InputFormatterTask(p)
              ELSE heap[a].stage = getStage(p)

(***************************************************************************)
(* C11.  The returned plan has exactly one source record per source        *)
(* pipeline of the input plan, in the order the plan lists its source      *)
(* pipelines, each with the origin id and the descriptor of its source;    *)
(* no source is skipped and none has two records.                          *)
(***************************************************************************)
\* The source pipelines in the order the input plan lists them.
C11_PlanOrder == <<1, 2>>

C11_OneRecordPerSource ==
    Returned =>
      /\ Len(compiledPlan.sources) = Len(C11_PlanOrder)
      /\ \A k \in 1..Len(C11_PlanOrder) :
            k <= Len(compiledPlan.sources) =>
               /\ compiledPlan.sources[k].originId = pipelineQueryPlan.originId[C11_PlanOrder[k]]
               /\ compiledPlan.sources[k].descriptor = SourceDescriptor(C11_PlanOrder[k])
      /\ \A s \in SourceIds : Cardinality(RecordsOfSource(s)) = 1

(***************************************************************************)
(* C17.  Referential closure of the returned plan: every                   *)
(* ExecutablePipeline in the successor list of an ExecutablePipeline of    *)
(* the plan, in the successor list of a source record, or among the        *)
(* predecessors of a sink record is in the pipeline list of the plan.      *)
(***************************************************************************)
C17_PipelinePredecessors(record) ==
    { record.predecessor[k].ref :
        k \in { j \in 1..Len(record.predecessor) : record.predecessor[j].kind = "ExecutablePipeline" } }

C17_ReferentialClosure ==
    Returned =>
      /\ \A a \in compiledPlan.pipelines : Range(heap[a].successors) \subseteq compiledPlan.pipelines
      /\ \A k \in 1..Len(compiledPlan.sources) :
            Range(compiledPlan.sources[k].successors) \subseteq compiledPlan.pipelines
      /\ \A k \in 1..Len(compiledPlan.sinks) :
            C17_PipelinePredecessors(compiledPlan.sinks[k]) \subseteq compiledPlan.pipelines

\* A plan is returned in which an operator reached twice is referenced
\* from the successor lists of two ExecutablePipelines and, as a
\* predecessor, from a sink record.
C17_Witness ==
    /\ Returned
    /\ \E a, b1, b2 \in compiledPlan.pipelines :
          /\ b1 # b2
          /\ isOperatorPipeline(heap[a].id)
          /\ a \in Range(heap[b1].successors)
          /\ a \in Range(heap[b2].successors)
          /\ \E k \in 1..Len(compiledPlan.sinks) : a \in C17_PipelinePredecessors(compiledPlan.sinks[k])

(***************************************************************************)
(* C18.  Once an ExecutablePipeline is in the memo map, its id and its     *)
(* successor list do not change while the pass runs and it stays in the    *)
(* map; a successor list changes only by growing at its end, and only      *)
(* before the insertion.                                                   *)
(***************************************************************************)
C18_StepOK ==
    /\ \A k \in DOMAIN pipelineToExecutableMap :
          LET a == pipelineToExecutableMap[k]
          IN  /\ heap'[a] = heap[a]
              /\ status' = "running" =>
                    /\ k \in DOMAIN pipelineToExecutableMap'
                    /\ pipelineToExecutableMap'[k] = a
    /\ \A a \in 1..Len(heap) :
          /\ a <= Len(heap')
          /\ heap'[a].id = heap[a].id
          /\ IsPrefix(heap[a].successors, heap'[a].successors)

C18_ImmutableOnceMemoized == [][C18_StepOK]_vars

\* The memo map holds an operator pipeline that has a successor of its own,
\* and the walk went on to create another ExecutablePipeline after it.
C18_Witness ==
    /\ Running
    /\ \E k \in DOMAIN pipelineToExecutableMap :
          LET a == pipelineToExecutableMap[k]
          IN  /\ isOperatorPipeline(heap[a].id)
              /\ heap[a].successors # <<>>
              /\ \E b \in 1..Len(heap) : b > a /\ heap[b].successors # <<>>

(***************************************************************************)
(* C20.  Order preservation: the successor list of every returned          *)
(* ExecutablePipeline, operator or formatter, is the list of the           *)
(* ExecutablePipelines of the successors of its logical pipeline in the    *)
(* logical order, sinks left out, a successor listed twice occurring       *)
(* twice.                                                                  *)
(***************************************************************************)
C20_OrderPreserved ==
    Returned =>
      \A a \in compiledPlan.pipelines :
        LET list == LogicalSuccessors(heap[a].id)
        IN  /\ BuiltOnce(list)
            /\ heap[a].successors = Lowered(list)

\* Source 1 lists operator 3, a sink, operator 4 and operator 3 again: its
\* formatter pipeline has the three operator successors.
C20_Witness ==
    /\ Returned
    /\ LogicalSuccessors(1) = <<3, 5, 4, 3>>
    /\ \E a \in WithId(1) : Len(heap[a].successors) = 3

(***************************************************************************)
(* C12.  Option resolution: the options of every stage getStage built      *)
(* have native compilation enabled exactly when the execution mode is      *)
(* COMPILER, console dump exactly when the dump mode is CONSOLE or         *)
(* FILE_AND_CONSOLE, file dump exactly when it is FILE or                  *)
(* FILE_AND_CONSOLE, no dump flag at all for NONE, and multithreaded code  *)
(* generation disabled; the dump flags are those of the other execution    *)
(* mode with the same dump mode.                                           *)
(***************************************************************************)
C12_CompiledStages ==
    { a \in 1..Len(heap) : heap[a].stage.kind = "CompiledExecutablePipelineStage" }

C12_OptionResolution ==
    \A a \in C12_CompiledStages :
       LET o == heap[a].stage.options
       IN  /\ executionMode \in {"COMPILER", "INTERPRETER"}
           /\ dumpMode \in DumpModes
           /\ o.engineCompilation = (executionMode = "COMPILER")
           /\ o.dumpConsole = (dumpMode \in {"CONSOLE", "FILE_AND_CONSOLE"})
           /\ o.dumpFile = (dumpMode \in {"FILE", "FILE_AND_CONSOLE"})
           /\ dumpMode = "NONE" => (~o.dumpAll /\ ~o.dumpConsole /\ ~o.dumpFile)
           /\ o.mlirEnableMultithreading = FALSE
           /\ \A m \in {"COMPILER", "INTERPRETER"} :
                 LET other == Options(m, dumpMode)
                 IN  /\ other.dumpAll = o.dumpAll
                     /\ other.dumpConsole = o.dumpConsole
                     /\ other.dumpFile = o.dumpFile
                     /\ other.mlirEnableMultithreading = o.mlirEnableMultithreading

\* A stage was built in interpreter mode with the dump mode FILE.
C12_Witness ==
    /\ executionMode = "INTERPRETER"
    /\ dumpMode = "FILE"
    /\ C12_CompiledStages # {}

C13_AtOperator ==
    /\ stack # <<>>
    /\ Top.fn \in {"processSource", "injectFormatter", "processOperatorPipeline"}
    /\ Top.i <= Len(getSuccessors(Top.pipeline))
    /\ NextSuccessor \in OperatorIds

C13_StepOK ==
    executionMode \notin {"COMPILER", "INTERPRETER"} =>
       /\ (Running /\ C13_AtOperator) =>
             /\ status' = "aborted"
             /\ compiledPlan' = NoPlan
       /\ status = "aborted" =>
             /\ status' = "aborted"
             /\ compiledPlan' = NoPlan
       /\ status' = "returned" =>
             Reachable(pipelineQueryPlan.successors) \cap OperatorIds = {}
       /\ \A a \in 1..Len(heap') : heap'[a].stage.kind # "CompiledExecutablePipelineStage"

C14_SourceAsSuccessor ==
    /\ stack # <<>>
    /\ Top.fn \in {"processSource", "injectFormatter", "processOperatorPipeline"}
    /\ Top.i <= Len(getSuccessors(Top.pipeline))
    /\ isSourcePipeline(NextSuccessor)

C14_StepOK ==
    /\ (Running /\ C14_SourceAsSuccessor) =>
          /\ status' = "aborted"
          /\ pipelineToExecutableMap' = pipelineToExecutableMap
          /\ sinks' = sinks
          /\ sources' = sources
          /\ heap' = heap
          /\ stack' = stack
          /\ compiledPlan' = NoPlan
    /\ status = "aborted" =>
          /\ status' = "aborted"
          /\ compiledPlan' = NoPlan

C14_SourceSuccessorAborts == [][C14_StepOK]_vars

\* The pass aborted on source 2 listed as a successor, after a sink record
\* was written and an ExecutablePipeline was created.
C14_Witness ==
    /\ status = "aborted"
    /\ C14_SourceAsSuccessor
    /\ sinks # <<>>
    /\ heap # <<>>
    /\ compiledPlan = NoPlan

(***************************************************************************)
(* C15.  A sink id that has a sink record and is reached again with a      *)
(* descriptor other than the recorded one aborts the pass: no predecessor  *)
(* is appended to a record whose descriptor is not the one of the sink     *)
(* that was reached, and no plan with such a record is returned.           *)
(***************************************************************************)
C15_Records == IF Returned THEN compiledPlan.sinks ELSE sinks

C15_InconsistentSinkAborts ==
    \A k \in 1..Len(arrivals) :
       LET p == arrivals[k].sink
       IN  \A j \in RecordsOfSink(C15_Records, getPipelineId(p)) :
              C15_Records[j].descriptor = SinkDescriptor(p)

(***************************************************************************)
(* C19.  Termination: for every finite acyclic plan the walk reaches a     *)
(* state in which the plan is returned or the pass has aborted.            *)
(***************************************************************************)
C19_Terminates == <>(status \in {"returned", "aborted"})

\* A plan is returned after the walk went from source 1 through operator 3
\* into operator 4.
C19_Witness ==
    /\ Returned
    /\ 3 \in Range(LogicalSuccessors(1))
    /\ 4 \in Range(LogicalSuccessors(3))
    /\ \E a \in WithId(3) : \E b \in WithId(4) : b \in Range(heap[a].successors)

C21_FromSource(pred, s) ==
    \/ pred.kind = "OriginId" /\ pred.ref = pipelineQueryPlan.originId[s]
    \/ pred.kind = "ExecutablePipeline" /\ heap[pred.ref].id = s

C21_DirectSinkOfSource ==
    Returned =>
      \A s \in SourceIds : \A k \in 1..Len(compiledPlan.sinks) :
        LET record == compiledPlan.sinks[k]
            preds  == { j \in 1..Len(record.predecessor) : C21_FromSource(record.predecessor[j], s) }
        IN  record.id \in Range(LogicalSuccessors(s)) =>
              /\ Cardinality(preds) = Occurrences(LogicalSuccessors(s), record.id)
              /\ \A j \in preds :
                    IF RawParser(s)
                    THEN record.predecessor[j].kind = "OriginId"
                    ELSE /\ record.predecessor[j].kind = "ExecutablePipeline"
                         /\ IsFormatterOf(record.predecessor[j].ref, s)
              /\ \A r \in RecordsOfSource(s) : C5_NoSinkEntry(compiledPlan.sources[r].successors)
              /\ \A a \in CreatedWithId(s) : C5_NoSinkEntry(heap[a].successors)

(***************************************************************************)
(* C22.  The left query handed to the differential callback is the query   *)
(* parsed last, the query of the last QUERY statement or the right query   *)
(* of the differential block before, and the main query id is the id of    *)
(* that query; a differential block that no parsed query precedes aborts   *)
(* parse() and no differential callback is invoked.                        *)
(***************************************************************************)
C22_ParsesQuery(c) == c.callback \in {"onQuery", "onDifferentialQueryBlock"}
C22_QueryOf(c) ==
    IF c.callback = "onQuery"
    THEN [query |-> c.arguments.query, id |-> c.arguments.queryId]
    ELSE [query |-> c.arguments.rightQuery, id |-> c.arguments.differentialQueryId]

C22_LeftIsLastParsed(cbs) ==
    \A k \in 1..Len(cbs) :
       cbs[k].callback = "onDifferentialQueryBlock" =>
          LET before == { j \in 1..(k - 1) : C22_ParsesQuery(cbs[j]) }
          IN  /\ before # {}
              /\ LET last == CHOOSE j \in before : \A i \in before : i <= j
                 IN  /\ cbs[k].arguments.leftQuery = C22_QueryOf(cbs[last]).query
                     /\ cbs[k].arguments.mainQueryId = C22_QueryOf(cbs[last]).id

C22_StepOK ==
    /\ C22_LeftIsLastParsed(callbacks')
    /\ ( /\ AtToken("DIFFERENTIAL")
         /\ \A j \in 1..Len(callbacks) : ~C22_ParsesQuery(callbacks[j]) ) =>
            /\ parserStatus' = "aborted"
            /\ callbacks' = callbacks

C22_DifferentialLeftQuery == [][C22_StepOK]_vars

\* A query and two differential blocks in a row were parsed: the second
\* block got the right query of the first as its left query.
C22_Witness ==
    /\ parserStatus = "done"
    /\ \E k \in 1..(Len(callbacks) - 2) :
          /\ callbacks[k].callback = "onQuery"
          /\ callbacks[k + 1].callback = "onDifferentialQueryBlock"
          /\ callbacks[k + 2].callback = "onDifferentialQueryBlock"
          /\ callbacks[k + 2].arguments.leftQuery = callbacks[k + 1].arguments.rightQuery
          /\ callbacks[k + 2].arguments.leftQuery # callbacks[k].arguments.query

(***************************************************************************)
(* C23.  parse() dispatches the statement lines once each and in the       *)
(* order of the input: the first token dispatched is the first line that   *)
(* is not empty, the token dispatched after a statement is the first line  *)
(* that is not empty behind the body of the statement, also when that line *)
(* follows the result tuples with no empty line in between, and parse()    *)
(* returns only when no such line is left.                                 *)
(***************************************************************************)
C23_DispatchedInOrder ==
    parserStatus = "done" =>
       /\ \A k \in 1..Len(callbacks) :
             callbacks[k].line = SkipEmpty(lines, IF k = 1 THEN 0 ELSE callbacks[k - 1].to)
       /\ SkipEmpty(lines, IF callbacks = <<>> THEN 0 ELSE callbacks[Len(callbacks)].to) >= Len(lines)

(***************************************************************************)
(* C24.  After every load the parse that follows starts at the first       *)
(* loaded line that is not empty, also on a parser object that has loaded  *)
(* and parsed an input before: the first token fetched is the token of     *)
(* that line.                                                              *)
(***************************************************************************)
C24_ParseStartsAtFirstLine ==
    parserStatus = "loaded" =>
       moveToNextToken(lines, currentLine, firstToken, shouldRevisitCurrentLine).currentLine
          = SkipEmpty(lines, 0)

(***************************************************************************)
(* C25.  With QoS 2 the connection that start opens has cleanSession =     *)
(* false whatever value was configured, and the validated configuration    *)
(* stores cleanSession = false when QoS is 2 and cleanSession was not      *)
(* given; with QoS 0 and 1 the connection has the configured value.        *)
(***************************************************************************)
C25_ConfiguredQos == IF "qos" \in DOMAIN mqttConfig THEN mqttConfig["qos"] ELSE "1"
C25_ConfiguredCleanSession ==
    IF "cleanSession" \in DOMAIN mqttConfig THEN mqttConfig["cleanSession"] = "true" ELSE TRUE

C25_CleanSessionForQos2 ==
    /\ validated # <<>> /\ C25_ConfiguredQos = "2" /\ "cleanSession" \notin DOMAIN mqttConfig
          => validated.cleanSession = FALSE
    /\ client.created =>
          client.clean_session = IF C25_ConfiguredQos = "2" THEN FALSE ELSE C25_ConfiguredCleanSession

C25_Witness ==
    /\ mqttStatus = "started"
    /\ C25_ConfiguredQos = "2"
    /\ "cleanSession" \in DOMAIN mqttConfig
    /\ cleanSession
    /\ ~client.clean_session

(***************************************************************************)
(* C26.  Between start and stop, execute publishes nothing and throws      *)
(* nothing for a buffer without tuples, throws CannotOpenSink and          *)
(* publishes nothing for tuples on a disconnected client, and for tuples   *)
(* on a connected client publishes exactly one message and waits for its   *)
(* token exactly when QoS is greater than 0.                               *)
(***************************************************************************)
C26_ExecuteOK ==
    executes' = executes + 1 =>
       LET publishedByCall == client'.published - client.published
           waitedByCall == client'.waited - client.waited
           numberOfTuples == executed'.numberOfTuples
       IN  /\ numberOfTuples = 0 =>
                publishedByCall = 0 /\ waitedByCall = 0 /\ executed'.thrown = "none"
           /\ numberOfTuples > 0 /\ ~client.connected =>
                publishedByCall = 0 /\ waitedByCall = 0 /\ executed'.thrown = "CannotOpenSink"
           /\ numberOfTuples > 0 /\ client.connected =>
                /\ publishedByCall = 1
                /\ waitedByCall = IF validated.qos > 0 THEN 1 ELSE 0

C27_RoundTrip ==
    serdeStatus = "serialized" /\ deserialized # <<>> =>
       /\ deserialized.thrown = "none"
       /\ deserialized.function = aggregation

(***************************************************************************)
(* C28.  Registering the configuration that serialize produced yields a    *)
(* trait with the same origin ids in the same order, the empty list and    *)
(* repeated ids included; a configuration without the key outputOriginIds  *)
(* or with a value that is not a string is answered with CannotDeserialize.*)
(***************************************************************************)
C28_RoundTrip ==
    registered # <<>> =>
       /\ traitStatus = "serialized" =>
             registered.thrown = "none" /\ registered.originIds = originIds
       /\ "outputOriginIds" \notin DOMAIN traitConfig => registered.thrown = "CannotDeserialize"
       /\ "outputOriginIds" \in DOMAIN traitConfig /\ ~traitConfig["outputOriginIds"].holds_string
             => registered.thrown = "CannotDeserialize"

C28_Witness ==
    /\ traitStatus = "serialized"
    /\ registered # <<>>
    /\ originIds = << 101, 0, 101 >>
    /\ traitConfig["outputOriginIds"].string = << "1", "0", "1", ",", "0", ",", "1", "0", "1" >>

(***************************************************************************)
(* C29.  In every interleaving of the calls of ensureMeosInitialized,      *)
(* meos_initialize runs at most once, the cleanup is registered at most    *)
(* once, and no call returns before the initialization has completed.      *)
(***************************************************************************)
C29_InitializedOnce ==
    /\ initializeBegun <= 1
    /\ atexitRegistered <= 1
    /\ \A t \in DOMAIN returns : returns[t] > 0 => initializeEnded >= 1 /\ meos_initialized

C29_Witness ==
    /\ \A t \in DOMAIN returns : returns[t] = MaxCalls
    /\ DOMAIN returns # {}
    /\ initializeEnded = 1
    /\ atexitRegistered = 1

(***************************************************************************)
(* C30.  convertEpochToTimestamp takes a value of at most 12 decimal       *)
(* digits as seconds, of 13 to 15 digits as milliseconds, of 16 to 18      *)
(* digits as microseconds and of 19 or more digits as nanoseconds, and the *)
(* seconds it gives to convertSecondsToTimestamp are in [0, 4102444800].   *)
(***************************************************************************)
RECURSIVE C30_DigitsOf(_)
C30_DigitsOf(n) == IF n < 10 THEN 1 ELSE 1 + C30_DigitsOf(n \div 10)

C30_Digits(x) ==
    IF x[1] > 0 THEN 12 + C30_DigitsOf(x[1])
    ELSE IF x[2] > 0 THEN 6 + C30_DigitsOf(x[2])
    ELSE C30_DigitsOf(x[3])

C30_Seconds(x) ==
    LET digits == C30_Digits(x)
    IN  IF digits <= 12 THEN x
        ELSE IF digits <= 15 THEN dividedByThousand(x)
        ELSE IF digits <= 18 THEN dividedByMillion(x)
        ELSE dividedByBillion(x)

C30_Largest == << 0, 4102, 444800 >>

====
